---- MODULE Spec2Model ----
(***************************************************************************)
(* A model of the annotation state server of annoku (src/src/mcp.ts):      *)
(* the in-memory store of one AnnotationServer instance, its HTTP request  *)
(* handlers (with their suspension points), the debounced persistence      *)
(* timer, the snapshot file, the port file and the start / shutdown        *)
(* life cycle.                                                             *)
(***************************************************************************)
EXTENDS Integers, Sequences, FiniteSets, TLC

VARIABLES
  annotations,        \* this.annotations: the Map, as its values in insertion order
  persistEnabled,     \* this.persistEnabled
  persistTimer,       \* this.persistTimer: 0 (null) or the position in timers of its handle
  timers,             \* the event loop's pending persistence timeouts: ms elapsed of each
  server,             \* this.server: "none", "listening", or "closing" (close() called)
  startPc,            \* a start() call: "idle", or "listen" (suspended in await this.listen)
  port,               \* this.port: 0 (null) or the bound port
  portFile,           \* the port file on disk
  persistFile,        \* the snapshot file on disk
  screenshotCallback, \* this.screenshotCallback is registered
  reqs,               \* the HTTP requests in flight, one per connection slot
  nextId,             \* the source of randomUUID: the next unused identifier
  last,               \* the most recent step: its operation, its response status or
                      \* result, and what it did to the snapshot file
  lastMutation,       \* the most recent store mutation: ms elapsed since (saturating)
                      \* and whether persistence was enabled when it was made
  deletedIds,         \* ids this instance deleted or cleared
  shutdownFlush,      \* the records the store held when shutdown flushed them, while
                      \* the snapshot file is still the one that flush wrote
  fresh,              \* the instance was constructed and has not been started yet
  sendLatch,          \* the send latch: "idle", "latched", or "waiting" (a waiter is active)
  waiter,             \* the active waitForSend: its timeout and the ms elapsed of it
  sendLog,            \* the most recent events of the latch, oldest first
  origin,             \* req.headers.origin: the Origin header the requests carry
  secondStart,        \* a start() call issued while another one is suspended: "idle" or
                      \* "listen"
  orphaned            \* ports of listening http servers this instance created and
                      \* this.server no longer refers to

vars == <<annotations, persistEnabled, persistTimer, timers, server, startPc, port,
          portFile, persistFile, screenshotCallback, reqs, nextId, last,
          lastMutation, deletedIds, shutdownFlush, fresh, sendLatch, waiter, sendLog,
          origin, secondStart, orphaned>>

-----------------------------------------------------------------------------
(* Program constants *)

MAX_ANNOTATIONS == 50
MAX_BODY_BYTES == 65536
MAX_TEXT_LENGTH == 10240
MAX_SELECTOR_LENGTH == 2048
MAX_VIEWPORT_DIM == 100000
MAX_SCREENSHOT_BYTES == 20971520
PERSIST_DEBOUNCE_MS == 300
basePort == 9223

(* Bounds of the model *)

MaxCreates == 2      \* identifiers randomUUID hands out in one behaviour
MaxInFlight == 2     \* HTTP requests suspended at the same time
TickMs == 150        \* the granularity of the passage of time
MaxLog == 3          \* events of the send latch kept in its log
MaxChunks == 3       \* 'data' events of one request body

-----------------------------------------------------------------------------
(* JavaScript values *)

JsNull == [null |-> TRUE]
JsNaN == [nan |-> TRUE]
Absent == [absent |-> TRUE]
JsNum(n) == [num |-> n]
JsStr(s) == [str |-> s]
StrOfLen(n) == [strlen |-> n]     \* an opaque string, known by its length

\* Number(v): a number stays, a non-numeric string becomes NaN
ToNumber(v) == IF "num" \in DOMAIN v THEN v ELSE IF "null" \in DOMAIN v THEN JsNum(0) ELSE JsNaN

\* JSON.stringify of a number: NaN (and the infinities) are written as null
JsonNumber(v) == IF "num" \in DOMAIN v THEN v ELSE JsNull

Min(a, b) == IF a < b THEN a ELSE b

\* String(v ?? ""): a string stays, undefined and null give "", a number
\* (a non-negative integer here) gives its decimal digits
RECURSIVE DecimalLen(_)
DecimalLen(n) == IF n < 10 THEN 1 ELSE 1 + DecimalLen(n \div 10)
JsString(v) ==
  IF "strlen" \in DOMAIN v THEN v
  ELSE IF "num" \in DOMAIN v THEN StrOfLen(DecimalLen(v.num))
  ELSE StrOfLen(0)
IsString(v) == "strlen" \in DOMAIN v

-----------------------------------------------------------------------------
(* Origins.  A string that is parsed is the sequence of its characters.     *)
(* new URL(s) is modelled for absolute URLs with an authority: the scheme   *)
(* up to the first ":" in lower case; for http, https, ftp, ws and wss the  *)
(* host that follows the slashes, after the last "@", without the port, in  *)
(* lower case; IPv4 and IPv6 hosts are taken in their canonical spelling    *)

UpperCase ==
  <<"A", "B", "C", "D", "E", "F", "G", "H", "I", "J", "K", "L", "M",
    "N", "O", "P", "Q", "R", "S", "T", "U", "V", "W", "X", "Y", "Z">>
LowerCase ==
  <<"a", "b", "c", "d", "e", "f", "g", "h", "i", "j", "k", "l", "m",
    "n", "o", "p", "q", "r", "s", "t", "u", "v", "w", "x", "y", "z">>
Letters == {UpperCase[i] : i \in 1..Len(UpperCase)} \cup {LowerCase[i] : i \in 1..Len(LowerCase)}
Digits == {"0", "1", "2", "3", "4", "5", "6", "7", "8", "9"}
ToLower(c) ==
  IF \E i \in 1..Len(UpperCase) : UpperCase[i] = c
    THEN LowerCase[CHOOSE i \in 1..Len(UpperCase) : UpperCase[i] = c]
    ELSE c
LowerAll(cs) == [i \in 1..Len(cs) |-> ToLower(cs[i])]

\* the position of the first (last) character of cs that is in set, 0 when none is
FirstOf(cs, set) ==
  IF \E i \in 1..Len(cs) : cs[i] \in set
    THEN CHOOSE i \in 1..Len(cs) : cs[i] \in set /\ \A j \in 1..(i - 1) : cs[j] \notin set
    ELSE 0
LastOf(cs, set) ==
  IF \E i \in 1..Len(cs) : cs[i] \in set
    THEN CHOOSE i \in 1..Len(cs) : cs[i] \in set /\ \A j \in (i + 1)..Len(cs) : cs[j] \notin set
    ELSE 0
Upto(cs, i) == IF i = 0 THEN cs ELSE SubSeq(cs, 1, i - 1)
From(cs, i) == SubSeq(cs, i + 1, Len(cs))
\* cs without its leading slashes
SkipSlashes(cs) ==
  LET other == {i \in 1..Len(cs) : cs[i] \notin {"/", "\\"}}
  IN IF other = {} THEN <<>>
     ELSE SubSeq(cs, CHOOSE i \in other : \A j \in other : i <= j, Len(cs))

SpecialSchemes == {<<"h", "t", "t", "p">>, <<"h", "t", "t", "p", "s">>, <<"f", "t", "p">>, <<"w", "s">>, <<"w", "s", "s">>}
NotAUrl == [ok |-> FALSE]

\* the host of an authority: what follows the last "@", up to the port
HostOf(authority) ==
  LET hostport == From(authority, LastOf(authority, {"@"}))
  IN IF Len(hostport) > 0 /\ hostport[1] = "["
       THEN IF FirstOf(hostport, {"]"}) = 0 THEN <<>>
            ELSE SubSeq(hostport, 1, FirstOf(hostport, {"]"}))
       ELSE Upto(hostport, FirstOf(hostport, {":"}))

\* new URL(cs): NotAUrl when it throws, else protocol and hostname
parseURL(cs) ==
  LET colon == FirstOf(cs, {":"})
      scheme == LowerAll(Upto(cs, colon))
      rest == From(cs, colon)
      authority == LET a == SkipSlashes(rest) IN Upto(a, FirstOf(a, {"/", "\\", "?", "#"}))
      plain == IF Len(rest) >= 2 /\ rest[1] = "/" /\ rest[2] = "/"
                 THEN LET a == SubSeq(rest, 3, Len(rest)) IN Upto(a, FirstOf(a, {"/", "?", "#"}))
                 ELSE <<>>
      host == HostOf(authority)
  IN IF colon <= 1 \/ cs[1] \notin Letters
          \/ \E i \in 1..(colon - 1) : cs[i] \notin Letters \cup Digits \cup {"+", "-", "."}
       THEN NotAUrl
     ELSE IF scheme \in SpecialSchemes
       THEN IF host = <<>> THEN NotAUrl
            ELSE [ok |-> TRUE, protocol |-> scheme \o <<":">>, hostname |-> LowerAll(host)]
     ELSE [ok |-> TRUE, protocol |-> scheme \o <<":">>, hostname |-> HostOf(plain)]

LoopbackHosts == {<<"l", "o", "c", "a", "l", "h", "o", "s", "t">>, <<"1", "2", "7", ".", "0", ".", "0", ".", "1">>, <<"[", ":", ":", "1", "]">>}

\* an origin check that accepts every host that begins with a loopback name
isAllowedOrigin_prefixMatch(o) ==
  IF o = Absent \/ o = JsStr(<<>>) THEN JsNull
  ELSE LET parsed == parseURL(o.str)
       IN IF /\ parsed.ok
             /\ parsed.protocol \in {<<"h", "t", "t", "p", ":">>, <<"h", "t", "t", "p", "s", ":">>}
             /\ \E h \in LoopbackHosts :
                  Len(parsed.hostname) >= Len(h) /\ SubSeq(parsed.hostname, 1, Len(h)) = h
            THEN o
            ELSE JsNull

\* isAllowedOrigin(origin): the origin itself, or null
isAllowedOrigin(o) ==
  IF o = Absent \/ o = JsStr(<<>>) THEN JsNull
  ELSE LET parsed == parseURL(o.str)
       IN IF /\ parsed.ok
             /\ parsed.protocol \in {<<"h", "t", "t", "p", ":">>, <<"h", "t", "t", "p", "s", ":">>}
             /\ parsed.hostname \in LoopbackHosts
            THEN o
            ELSE JsNull

DefaultOrigin == JsStr(<<"h", "t", "t", "p", ":", "/", "/", "1", "2", "7", ".", "0", ".", "0", ".", "1">>)

\* CORS headers that echo whatever origin the request names
corsHeaders_echoesAny(o) ==
  [allowOrigin |-> IF o # Absent THEN o ELSE DefaultOrigin,
   allowMethods |-> "GET, POST, PATCH, DELETE, OPTIONS",
   allowHeaders |-> "Content-Type",
   vary |-> "Origin"]

\* corsHeaders(req), for the Origin header of req
corsHeaders(o) ==
  [allowOrigin |-> IF isAllowedOrigin(o) # JsNull THEN isAllowedOrigin(o) ELSE DefaultOrigin,
   allowMethods |-> "GET, POST, PATCH, DELETE, OPTIONS",
   allowHeaders |-> "Content-Type",
   vary |-> "Origin"]

-----------------------------------------------------------------------------
(* Annotations and the snapshot file *)

\* The Annotation written at creation: status "open", the given screenshot
NewAnnotation(id, body, screenshot) ==
  [id |-> id,
   text |-> JsString(body.text),
   status |-> "open",
   screenshot |-> screenshot,
   anchorPoint |-> IF body.anchorPoint = Absent THEN Absent
                   ELSE IF body.anchorPoint.x = JsNull \/ body.anchorPoint.y = JsNull THEN Absent
                   ELSE [x |-> ToNumber(body.anchorPoint.x), y |-> ToNumber(body.anchorPoint.y)]]

\* the Map key of an entry that has no id: the value undefined, which no
\* identifier of randomUUID equals
UndefinedKey == 0

\* what this.annotations.set(ann.id, ann) stores for an entry of the file: the
\* entry under its id, or under the key undefined when it has none (a number, a
\* string, an object without id)
Keyed(e) == IF "id" \in DOMAIN e THEN e ELSE [id |-> UndefinedKey, value |-> e]
Unkeyed(a) == IF "value" \in DOMAIN a THEN a.value ELSE a

\* JSON.stringify followed by JSON.parse of one value of the Map
JsonRoundTrip(a) ==
  IF "anchorPoint" \notin DOMAIN a THEN a
  ELSE [a EXCEPT !.anchorPoint = IF a.anchorPoint = Absent THEN Absent
                                 ELSE [x |-> JsonNumber(a.anchorPoint.x), y |-> JsonNumber(a.anchorPoint.y)]]

\* the snapshot file: missing, text that JSON.parse rejects, a JSON array, or
\* another JSON value (null, a number, an object, or a string given by its characters)
NoFile == [kind |-> "missing"]
GarbageFile == [kind |-> "garbage"]
JsonFile(arr) == [kind |-> "json", value |-> arr]
JsonValueFile(v) == [kind |-> "jsonValue", json |-> v]
JsObject == [object |-> TRUE]
JsChars(cs) == [chars |-> cs]

\* the snapshot a flush writes: JSON.stringify(Array.from(this.annotations.values()))
Snapshot(store) == JsonFile([i \in 1..Len(store) |-> JsonRoundTrip(Unkeyed(store[i]))])

IdsOf(store) == {store[i].id : i \in 1..Len(store)}
IndexOf(store, id) == CHOOSE i \in 1..Len(store) : store[i].id = id
Lookup(store, id) == store[IndexOf(store, id)]

\* Map.prototype.set: an existing key keeps its position, a new key goes last
MapSet(store, ann) ==
  IF ann.id \in IdsOf(store)
    THEN [store EXCEPT ![IndexOf(store, ann.id)] = ann]
    ELSE Append(store, ann)

\* Map.prototype.delete
MapDelete(store, id) == SelectSeq(store, LAMBDA a : a.id # id)

\* what `for (const ann of arr)` iterates: the elements of an array, the
\* characters of a string; readFileSync of a missing file, JSON.parse of garbage
\* and the iteration of null, a number or an object throw before any entry is set
Iterated(file) ==
  IF file.kind = "json" THEN file.value
  ELSE IF file.kind = "jsonValue" /\ "chars" \in DOMAIN file.json
    THEN [i \in 1..Len(file.json.chars) |-> JsStr(file.json.chars[i])]
  ELSE <<>>

\* the entries set before `ann.id` throws on a null entry (all, when none is null)
SetBeforeThrow(raw) ==
  LET nulls == {i \in 1..Len(raw) : raw[i] = JsNull}
      stop == IF nulls = {} THEN Len(raw) + 1 ELSE CHOOSE i \in nulls : \A j \in nulls : i <= j
  IN [i \in 1..(stop - 1) |-> Keyed(raw[i])]

\* loadPersistedAnnotations: for (const ann of arr) this.annotations.set(ann.id, ann),
\* inside a try whose catch swallows every exception and keeps what was set.
\* The loop in closed form: a record whose key is in the file is replaced in place by
\* the file's (last) entry of that key, and the file's other entries follow in the
\* order of their first occurrence.
LastIndex(arr, id) ==
  CHOOSE i \in 1..Len(arr) : arr[i].id = id /\ \A j \in (i + 1)..Len(arr) : arr[j].id # id
loadPersistedAnnotations(store, file) ==
  LET arr == SetBeforeThrow(Iterated(file))
      kept == [i \in 1..Len(store) |->
                 IF store[i].id \in IdsOf(arr) THEN arr[LastIndex(arr, store[i].id)]
                 ELSE store[i]]
      firsts == {i \in 1..Len(arr) :
                   /\ arr[i].id \notin IdsOf(store)
                   /\ \A j \in 1..(i - 1) : arr[j].id # arr[i].id}
      Rank(i) == Cardinality({j \in firsts : j <= i})
      added == [k \in 1..Cardinality(firsts) |->
                  arr[LastIndex(arr, arr[CHOOSE i \in firsts : Rank(i) = k].id)]]
  IN kept \o added

\* the snapshot file a previous run left behind: MAX_ANNOTATIONS - 1 open records
SeedAnnotation(i) ==
  [id |-> i, text |-> StrOfLen(4), status |-> "open", screenshot |-> JsNull, anchorPoint |-> Absent]
SeedFile == JsonFile([i \in 1..(MAX_ANNOTATIONS - 1) |-> SeedAnnotation(i)])
FirstFreshId == MAX_ANNOTATIONS

-----------------------------------------------------------------------------
(* The debounced persistence timer *)

\* clearTimeout(handle): the timeout leaves the event loop
clearTimeout(ts, h) ==
  IF h \in 1..Len(ts) THEN [i \in 1..(Len(ts) - 1) |-> IF i < h THEN ts[i] ELSE ts[i + 1]]
  ELSE ts

\* a schedulePersist that arms a new timer without cancelling the pending one
schedulePersist_noCancel(enabled, pt, ts) ==
  IF ~enabled THEN [pt |-> pt, ts |-> ts]
  ELSE [pt |-> Len(ts) + 1, ts |-> Append(ts, 0)]

\* schedulePersist: the pending timer, if any, is cancelled and a new one armed
schedulePersist(enabled, pt, ts) ==
  IF ~enabled THEN [pt |-> pt, ts |-> ts]
  ELSE LET cleared == IF pt # 0 THEN clearTimeout(ts, pt) ELSE ts
       IN [pt |-> Len(cleared) + 1, ts |-> Append(cleared, 0)]

\* a flushPersist that does not look at persistEnabled
flushPersist_unconditional(enabled, pt, ts, file, store) ==
  [pt |-> 0,
   ts |-> IF pt # 0 THEN clearTimeout(ts, pt) ELSE ts,
   file |-> Snapshot(store),
   wrote |-> TRUE]

\* flushPersist: nothing when disabled; else the pending timer is cancelled
\* and the whole store is written
flushPersist(enabled, pt, ts, file, store) ==
  IF ~enabled THEN [pt |-> pt, ts |-> ts, file |-> file, wrote |-> FALSE]
  ELSE [pt |-> 0,
        ts |-> IF pt # 0 THEN clearTimeout(ts, pt) ELSE ts,
        file |-> Snapshot(store),
        wrote |-> TRUE]

-----------------------------------------------------------------------------
(* Inputs *)

Slots == 1..MaxInFlight
Idle == [pc |-> "idle"]

\* the ids requests and direct calls name: every identifier randomUUID can hand
\* out (unknown until it is assigned), and in the capacity scenario the first
\* record of the seed snapshot
TargetIds == FirstFreshId..(FirstFreshId + MaxCreates - 1)
SeedId == SeedFile.value[1].id

PlainBody ==
  [text |-> StrOfLen(4), urlType |-> "string", selector |-> StrOfLen(8), elements |-> Absent,
   viewport |-> [width |-> JsNum(800), height |-> JsNum(600)],
   elementRect |-> Absent, anchorPoint |-> Absent]
\* a body with an element rectangle (the screenshot callback is invoked for it)
\* and an anchor point whose x is not numeric
RectBody ==
  [PlainBody EXCEPT !.elementRect = [width |-> JsNum(10), height |-> JsNum(10)],
                    !.anchorPoint = [x |-> JsStr("abc"), y |-> JsNum(7)]]
\* a body the validation rejects
BadViewportBody == [PlainBody EXCEPT !.viewport = [width |-> JsNum(-1), height |-> JsNum(600)]]
Bodies == {PlainBody, RectBody, BadViewportBody}

PatchTexts == {StrOfLen(6)}

\* what the screenshot callback can do: return null, return a string, throw
ScreenshotOutcomes ==
  {[kind |-> "value", value |-> JsNull],
   [kind |-> "value", value |-> StrOfLen(4)],
   [kind |-> "value", value |-> StrOfLen(MAX_SCREENSHOT_BYTES)],
   [kind |-> "value", value |-> StrOfLen(MAX_SCREENSHOT_BYTES + 1)],
   [kind |-> "throw"]}

\* the ports other processes may hold when this server binds
portsToTry == <<basePort, basePort + 1, basePort + 2, basePort + 3>>
BusyPortSets == {{basePort}, {basePort, basePort + 1, basePort + 2, basePort + 3}}

-----------------------------------------------------------------------------
(* Validation of a create body *)

\* a request body that JSON.parse rejects, and the body `null`, whose
\* properties cannot be read
NotJson == [notJson |-> TRUE]
Unreadable(body) == body = NotJson \/ body = JsNull

IsFiniteNumber(v) == "num" \in DOMAIN v

\* the bytes of a request body are at least the characters of its strings
BodyBytes(body) ==
  LET els == IF body.elements = Absent THEN <<>> ELSE body.elements
      ElLen(e) == IF e = JsNull THEN 0 ELSE JsString(e.selector).strlen
      RECURSIVE Sum(_)
      Sum(k) == IF k = 0 THEN 0 ELSE ElLen(els[k]) + Sum(k - 1)
  IN JsString(body.text).strlen + JsString(body.selector).strlen + Sum(Len(els))

\* readBody rejects, and destroys the connection, once more than MAX_BODY_BYTES arrived
readBodyRejects(bytes) == bytes > MAX_BODY_BYTES

\* the loop over body.elements: "none" when every selector passes, the
\* rejection when a selector is too long, "throw" when `el.selector` is read
\* of a null entry before that
ElementsCheck(els) ==
  LET bad == {i \in 1..Len(els) :
                els[i] = JsNull \/ JsString(els[i].selector).strlen > MAX_SELECTOR_LENGTH}
      first == CHOOSE i \in bad : \A j \in bad : i <= j
  IN IF bad = {} THEN "none"
     ELSE IF els[first] = JsNull THEN "throw"
     ELSE "Element selector"

\* the checks with a text limit that is off by one
Rejection_textOffByOne(body) ==
  LET vw == ToNumber(body.viewport.width)
      vh == ToNumber(body.viewport.height)
      els == IF body.elements = Absent THEN "none" ELSE ElementsCheck(body.elements)
  IN IF JsString(body.text).strlen >= MAX_TEXT_LENGTH THEN "Text"
     ELSE IF body.urlType \notin {"undefined", "string"} THEN "url"
     ELSE IF JsString(body.selector).strlen > MAX_SELECTOR_LENGTH THEN "Selector"
     ELSE IF els # "none" THEN els
     ELSE IF ~IsFiniteNumber(vw) \/ ~IsFiniteNumber(vh) THEN "viewport"
     ELSE IF vw.num < 0 \/ vh.num < 0 \/ vw.num > MAX_VIEWPORT_DIM \/ vh.num > MAX_VIEWPORT_DIM
       THEN "viewport"
     ELSE "none"

\* the checks of POST /annotations in the order of the code: "none" when the
\* body passes, else the field the 400 names, or "throw" for an exception
Rejection(body) ==
  LET vw == ToNumber(body.viewport.width)
      vh == ToNumber(body.viewport.height)
      els == IF body.elements = Absent THEN "none" ELSE ElementsCheck(body.elements)
  IN IF JsString(body.text).strlen > MAX_TEXT_LENGTH THEN "Text"
     ELSE IF body.urlType \notin {"undefined", "string"} THEN "url"
     ELSE IF JsString(body.selector).strlen > MAX_SELECTOR_LENGTH THEN "Selector"
     ELSE IF els # "none" THEN els
     ELSE IF ~IsFiniteNumber(vw) \/ ~IsFiniteNumber(vh) THEN "viewport"
     ELSE IF vw.num < 0 \/ vh.num < 0 \/ vw.num > MAX_VIEWPORT_DIM \/ vh.num > MAX_VIEWPORT_DIM
       THEN "viewport"
     ELSE "none"

\* a handler that answers a body it cannot parse as a bad request
validateCreate_badRequestOnParse(body) ==
  IF Unreadable(body) THEN 400
  ELSE IF readBodyRejects(BodyBytes(body)) \/ Rejection(body) = "throw" THEN 500
  ELSE IF Rejection(body) # "none" THEN 400
  ELSE 0

\* 0 when the body passes, else the status of the response: 400 for a
\* rejection, 500 for an exception (the catch of handleRequest)
validateCreate(body) ==
  IF Unreadable(body) THEN 500
  ELSE IF readBodyRejects(BodyBytes(body)) \/ Rejection(body) = "throw" THEN 500
  ELSE IF Rejection(body) # "none" THEN 400
  ELSE 0

\* req.destroy() in readBody: the connection is gone when the catch answers
connectionDestroyed(body) == ~Unreadable(body) /\ readBodyRejects(BodyBytes(body))

\* the callback is invoked when there is a rectangle of positive size and a callback
wantsScreenshot(body, callback) ==
  /\ body.elementRect # Absent
  /\ callback
  /\ IsFiniteNumber(ToNumber(body.elementRect.width)) /\ ToNumber(body.elementRect.width).num > 0
  /\ IsFiniteNumber(ToNumber(body.elementRect.height)) /\ ToNumber(body.elementRect.height).num > 0

\* a handler that stores whatever the callback returned
screenshotOf_noSizeGuard(outcome) ==
  IF outcome.kind = "throw" THEN JsNull ELSE outcome.value

\* the screenshot stored for an outcome of the callback
screenshotOf(outcome) ==
  IF outcome.kind = "throw" THEN JsNull
  ELSE IF outcome.value # JsNull /\ outcome.value.strlen > MAX_SCREENSHOT_BYTES THEN JsNull
  ELSE outcome.value

\* a capacity check that is off by one
atCapacity_offByOne(store) == Len(store) > MAX_ANNOTATIONS

\* the capacity check of POST /annotations
atCapacity(store) == Len(store) >= MAX_ANNOTATIONS

\* ids numbered by the size of the store, which reuses the id of a deleted record
randomUUID_bySize(store, next) == FirstFreshId + Len(store)

\* randomUUID: an identifier never handed out before
randomUUID(store, next) == next


-----------------------------------------------------------------------------
(* Initial state: a constructed AnnotationServer, nothing started; the      *)
(* snapshot file is missing or was left behind by a previous run            *)

\* what a step reports: the operation, its HTTP status (or the direct call's
\* result as the status of the matching route), and its snapshot-file access
Ev(op, status, io) ==
  [op |-> op, status |-> status, io |-> io, error |-> "none", cors |-> corsHeaders(origin)]
\* a response whose body is { error: ... }: the field a 400 names, or the
\* { error: "Internal server error" } of the catch
Err(op, status, error) ==
  [op |-> op, status |-> status, io |-> "none", error |-> error, cors |-> corsHeaders(origin)]
\* the 404 of the routes with :id when the Map has no such key
NotFound(op) == Err(op, 404, "Annotation not found")
\* the result of clear: the number clearAnnotations returns, which the route
\* answers as 200 { success: true, deleted }
Cleared(count) ==
  [op |-> "clear", status |-> 200, io |-> "none", error |-> "none", deleted |-> count,
   cors |-> corsHeaders(origin)]
\* the port a call of start returns
Started(op, p) == [op |-> op, status |-> 200, io |-> "none", error |-> "none", port |-> p]
\* what readPortFile returns
Read(result) ==
  [op |-> "readPortFile", status |-> 200, io |-> "none", error |-> "none", result |-> result]
\* the answer to a preflight: 204 without a body
Preflighted(path) ==
  [op |-> "options", status |-> 204, io |-> "none", error |-> "none", path |-> path,
   cors |-> corsHeaders(origin)]
\* what isAllowedOrigin returns for an input
Checked(input, result) ==
  [op |-> "isAllowedOrigin", status |-> 0, io |-> "none", error |-> "none",
   input |-> input, result |-> result]
createError(body) ==
  IF Unreadable(body) \/ validateCreate(body) = 500 THEN "Internal server error"
  ELSE Rejection(body)
\* the response of the catch of handleRequest; it reaches the client unless
\* readBody has destroyed the connection
InternalError(op, destroyed) ==
  [op |-> op, status |-> 500, io |-> "none", error |-> "Internal server error",
   delivered |-> ~destroyed, cors |-> corsHeaders(origin)]
Quiet == Ev("none", 0, "none")
NoFlush == [valid |-> FALSE]
NoMutation == [ms |-> PERSIST_DEBOUNCE_MS, enabled |-> FALSE]
Mutated == [ms |-> 0, enabled |-> persistEnabled]

\* the send latch of a constructed server: nothing latched, nobody waiting
NoWaiter == [timeout |-> 0, elapsed |-> 0]

Constructed(file) ==
  /\ origin = Absent
  /\ secondStart = "idle"
  /\ orphaned = {}
  /\ annotations = <<>>
  /\ persistEnabled = FALSE
  /\ persistTimer = 0
  /\ timers = <<>>
  /\ server = "none"
  /\ startPc = "idle"
  /\ port = 0
  /\ portFile = NoFile
  /\ persistFile = file
  /\ screenshotCallback = FALSE
  /\ reqs = [s \in Slots |-> Idle]
  /\ nextId = FirstFreshId
  /\ last = Quiet
  /\ lastMutation = NoMutation
  /\ deletedIds = {}
  /\ shutdownFlush = NoFlush
  /\ fresh = TRUE
  /\ sendLatch = "idle"
  /\ waiter = NoWaiter
  /\ sendLog = <<>>

Init == Constructed(NoFile)

\* in-flight PATCH handlers hold a reference to their record: once the record
\* leaves the Map the handler keeps the detached object
Detach(rq, ids, store) ==
  [s \in Slots |->
     IF rq[s].pc = "readBody" /\ rq[s].op = "patch" /\ rq[s].attached /\ rq[s].id \in ids
       THEN [rq[s] EXCEPT !.attached = FALSE, !.ann = Lookup(store, rq[s].id)]
       ELSE rq[s]]

\* the call of this.schedulePersist() that follows a mutation
Schedule ==
  LET sp == schedulePersist(persistEnabled, persistTimer, timers)
  IN /\ persistTimer' = sp.pt
     /\ timers' = sp.ts

\* a new connection takes the first free slot
HasFreeSlot == \E s \in Slots : reqs[s] = Idle
FreeSlot == CHOOSE s \in Slots : reqs[s] = Idle /\ \A t \in 1..(s - 1) : reqs[t] # Idle
InFlightCreates == Cardinality({s \in Slots : reqs[s] # Idle /\ reqs[s].op = "create"})

Lifecycle == <<server, startPc, port, portFile, screenshotCallback, persistEnabled>>
Ghosts == <<shutdownFlush, fresh>>
Latch == <<sendLatch, waiter, sendLog>>
Overlap == <<secondStart, orphaned>>

-----------------------------------------------------------------------------
(* onScreenshot(cb) *)

OnScreenshot ==
  /\ ~screenshotCallback
  /\ screenshotCallback' = TRUE
  /\ last' = Quiet
  /\ UNCHANGED <<annotations, persistEnabled, persistTimer, timers, server, startPc, port,
                 portFile, persistFile, reqs, nextId, lastMutation, deletedIds,
                 shutdownFlush, fresh>>
  /\ UNCHANGED Latch
  /\ UNCHANGED <<origin, Overlap>>

-----------------------------------------------------------------------------
(* POST /annotations *)

\* the handler up to its first suspension: the capacity check, then await readBody
CreateBegin ==
  /\ server = "listening"
  /\ HasFreeSlot
  /\ nextId + InFlightCreates < FirstFreshId + MaxCreates
  /\ IF atCapacity(annotations)
       THEN /\ last' = Ev("create", 429, "none")
            /\ reqs' = reqs
       ELSE /\ reqs' = [reqs EXCEPT ![FreeSlot] =
                          [pc |-> "readBody", op |-> "create", body |-> Absent]]
            /\ last' = Quiet
  /\ UNCHANGED <<annotations, persistTimer, timers, persistFile, nextId, lastMutation,
                 deletedIds, Lifecycle, Ghosts>>
  /\ UNCHANGED Latch
  /\ UNCHANGED <<origin, Overlap>>

\* an insert that does not signal the persistence manager
Insert_withoutSchedule(s, body, screenshot) ==
  LET id == randomUUID(annotations, nextId)
  IN /\ annotations' = MapSet(annotations, NewAnnotation(id, body, screenshot))
     /\ nextId' = nextId + 1
     /\ UNCHANGED <<persistTimer, timers>>
     /\ lastMutation' = Mutated
     /\ last' = Ev("create", 201, "none")
     /\ reqs' = [reqs EXCEPT ![s] = Idle]

\* this.annotations.set(annotation.id, annotation); this.schedulePersist(); 201
Insert(s, body, screenshot) ==
  LET id == randomUUID(annotations, nextId)
  IN /\ annotations' = MapSet(annotations, NewAnnotation(id, body, screenshot))
     /\ nextId' = nextId + 1
     /\ Schedule
     /\ lastMutation' = Mutated
     /\ last' = Ev("create", 201, "none")
     /\ reqs' = [reqs EXCEPT ![s] = Idle]

\* the body has arrived: validation, then the insert or the screenshot callback
CreateBodyRead(s, body) ==
  /\ reqs[s].pc = "readBody" /\ reqs[s].op = "create"
  /\ IF validateCreate(body) # 0
       THEN /\ last' = IF validateCreate(body) = 500
                         THEN InternalError("create", connectionDestroyed(body))
                         ELSE Err("create", validateCreate(body), createError(body))
            /\ reqs' = [reqs EXCEPT ![s] = Idle]
            /\ UNCHANGED <<annotations, nextId, persistTimer, timers, lastMutation>>
       ELSE IF wantsScreenshot(body, screenshotCallback)
         THEN /\ reqs' = [reqs EXCEPT ![s] = [pc |-> "screenshot", op |-> "create", body |-> body]]
              /\ last' = Quiet
              /\ UNCHANGED <<annotations, nextId, persistTimer, timers, lastMutation>>
         ELSE Insert(s, body, JsNull)
  /\ UNCHANGED <<persistFile, deletedIds, Lifecycle, Ghosts>>
  /\ UNCHANGED Latch
  /\ UNCHANGED <<origin, Overlap>>

\* the screenshot callback has settled
CreateScreenshotDone(s, outcome) ==
  /\ reqs[s].pc = "screenshot"
  /\ Insert(s, reqs[s].body, screenshotOf(outcome))
  /\ UNCHANGED <<persistFile, deletedIds, Lifecycle, Ghosts>>
  /\ UNCHANGED Latch
  /\ UNCHANGED <<origin, Overlap>>

-----------------------------------------------------------------------------
(* PATCH /annotations/:id *)

PatchBegin(id) ==
  /\ server = "listening"
  /\ HasFreeSlot
  /\ IF id \notin IdsOf(annotations)
       THEN /\ last' = NotFound("patch")
            /\ reqs' = reqs
       ELSE /\ reqs' = [reqs EXCEPT ![FreeSlot] =
                          [pc |-> "readBody", op |-> "patch", id |-> id,
                           attached |-> TRUE, ann |-> Absent]]
            /\ last' = Quiet
  /\ UNCHANGED <<annotations, persistTimer, timers, persistFile, nextId, lastMutation,
                 deletedIds, Lifecycle, Ghosts>>
  /\ UNCHANGED Latch
  /\ UNCHANGED <<origin, Overlap>>

\* a PATCH handler that assigns the text before it checks its length
PatchBodyRead_writesBeforeCheck(s, text) ==
  /\ reqs[s].pc = "readBody" /\ reqs[s].op = "patch"
  /\ reqs' = [reqs EXCEPT ![s] = Idle]
  /\ IF text = NotJson \/ readBodyRejects(JsString(text).strlen)
       THEN /\ last' = InternalError("patch", readBodyRejects(JsString(text).strlen))
            /\ UNCHANGED <<annotations, persistTimer, timers, lastMutation>>
       ELSE /\ IF reqs[s].attached
                 THEN /\ annotations' =
                           IF IsString(text)
                             THEN MapSet(annotations,
                                         [Lookup(annotations, reqs[s].id) EXCEPT !.text = text])
                             ELSE annotations
                      /\ lastMutation' = Mutated
                 ELSE UNCHANGED <<annotations, lastMutation>>
            /\ IF IsString(text) /\ text.strlen > MAX_TEXT_LENGTH
                 THEN /\ last' = Err("patch", 400, "Text")
                      /\ UNCHANGED <<persistTimer, timers>>
                 ELSE /\ Schedule
                      /\ last' = Ev("patch", 200, "none")
  /\ UNCHANGED <<persistFile, nextId, deletedIds, Lifecycle, Ghosts>>
  /\ UNCHANGED Latch
  /\ UNCHANGED <<origin, Overlap>>

PatchBodyRead(s, text) ==
  /\ reqs[s].pc = "readBody" /\ reqs[s].op = "patch"
  /\ reqs' = [reqs EXCEPT ![s] = Idle]
  /\ IF text = NotJson \/ readBodyRejects(JsString(text).strlen)
       THEN /\ last' = InternalError("patch", readBodyRejects(JsString(text).strlen))
            /\ UNCHANGED <<annotations, persistTimer, timers, lastMutation>>
       ELSE IF IsString(text) /\ text.strlen > MAX_TEXT_LENGTH
       THEN /\ last' = Err("patch", 400, "Text")
            /\ UNCHANGED <<annotations, persistTimer, timers, lastMutation>>
       ELSE /\ IF reqs[s].attached
                 THEN /\ annotations' =
                           IF IsString(text)
                             THEN MapSet(annotations,
                                         [Lookup(annotations, reqs[s].id) EXCEPT !.text = text])
                             ELSE annotations
                      /\ lastMutation' = Mutated
                 ELSE UNCHANGED <<annotations, lastMutation>>
            /\ Schedule
            /\ last' = Ev("patch", 200, "none")
  /\ UNCHANGED <<persistFile, nextId, deletedIds, Lifecycle, Ghosts>>
  /\ UNCHANGED Latch
  /\ UNCHANGED <<origin, Overlap>>

-----------------------------------------------------------------------------
(* readBody(req), chunk by chunk: the 'data' and 'end' listeners of a       *)
(* request whose handler is suspended in `await readBody(req)`              *)

RECURSIVE SumSeq(_)
SumSeq(q) == IF q = <<>> THEN 0 ELSE Head(q) + SumSeq(Tail(q))

\* the closure of readBody: `size`, the lengths of the buffers in `chunks`,
\* how the promise has settled, whether req.destroy() was called; and the
\* number of 'data' events the listener ran for
NewReader == [size |-> 0, chunks |-> <<>>, settled |-> "pending", destroyed |-> FALSE, events |-> 0]

\* a 'data' listener that keeps the chunk before it looks at the size
onData_checksAfterPush(r, n) ==
  IF r.size + n > MAX_BODY_BYTES
    THEN [r EXCEPT !.size = r.size + n, !.chunks = Append(@, n), !.destroyed = TRUE,
                   !.settled = IF @ = "pending" THEN "rejected" ELSE @,
                   !.events = @ + 1]
    ELSE [r EXCEPT !.size = r.size + n, !.chunks = Append(@, n), !.events = @ + 1]

\* the 'data' listener for a chunk of n bytes: size += chunk.length; over the
\* ceiling req.destroy(), reject and return; else chunks.push(chunk)
onData(r, n) ==
  IF r.size + n > MAX_BODY_BYTES
    THEN [r EXCEPT !.size = r.size + n, !.destroyed = TRUE,
                   !.settled = IF @ = "pending" THEN "rejected" ELSE @,
                   !.events = @ + 1]
    ELSE [r EXCEPT !.size = r.size + n, !.chunks = Append(@, n), !.events = @ + 1]

\* the reader of a request: untouched until its first chunk arrives
ReaderOf(rq) == IF "reader" \in DOMAIN rq THEN rq.reader ELSE NewReader
WithReader(rq, r, pc) ==
  IF rq.op = "create"
    THEN [pc |-> pc, op |-> "create", body |-> Absent, reader |-> r]
    ELSE [pc |-> pc, op |-> "patch", id |-> rq.id, attached |-> rq.attached, ann |-> rq.ann,
          reader |-> r]

\* a chunk of n bytes arrives.  When it takes the size over the ceiling the
\* promise rejects, the handler's await throws and its catch writes 500 to the
\* connection req.destroy() has torn down.  Chunks the stream had buffered may
\* still be handed to the listener after that
BodyData(s, n) ==
  /\ reqs[s] # Idle
  /\ reqs[s].pc \in {"readBody", "destroyed"}
  /\ ReaderOf(reqs[s]).events < MaxChunks
  /\ LET r == onData(ReaderOf(reqs[s]), n)
     IN /\ reqs' = [reqs EXCEPT ![s] =
                      WithReader(reqs[s], r, IF r.destroyed THEN "destroyed" ELSE "readBody")]
        /\ last' = IF r.settled = "rejected" /\ ReaderOf(reqs[s]).settled = "pending"
                     THEN InternalError(reqs[s].op, TRUE)
                     ELSE Quiet
  /\ UNCHANGED <<annotations, persistTimer, timers, persistFile, nextId, lastMutation,
                 deletedIds, Lifecycle, Ghosts>>
  /\ UNCHANGED Latch
  /\ UNCHANGED <<origin, Overlap>>

\* 'end' of a POST /annotations: readBody resolves with the concatenation of
\* the chunks, the text of `body`, and the handler goes on
CreateBodyEnd(s, body) ==
  /\ reqs[s] # Idle
  /\ reqs[s].pc = "readBody" /\ reqs[s].op = "create"
  /\ ReaderOf(reqs[s]).events > 0
  /\ SumSeq(ReaderOf(reqs[s]).chunks) = BodyBytes(body)
  /\ CreateBodyRead(s, body)

\* 'end' of a PATCH /annotations/:id
PatchBodyEnd(s, text) ==
  /\ reqs[s] # Idle
  /\ reqs[s].pc = "readBody" /\ reqs[s].op = "patch"
  /\ ReaderOf(reqs[s]).events > 0
  /\ SumSeq(ReaderOf(reqs[s]).chunks) = JsString(text).strlen
  /\ PatchBodyRead(s, text)

\* 'close' of a connection that req.destroy() has torn down
ConnectionClosed(s) ==
  /\ reqs[s] # Idle
  /\ reqs[s].pc = "destroyed"
  /\ reqs' = [reqs EXCEPT ![s] = Idle]
  /\ last' = Quiet
  /\ UNCHANGED <<annotations, persistTimer, timers, persistFile, nextId, lastMutation,
                 deletedIds, Lifecycle, Ghosts>>
  /\ UNCHANGED Latch
  /\ UNCHANGED <<origin, Overlap>>

-----------------------------------------------------------------------------
(* resolveAnnotation, deleteAnnotation, clearAnnotations: called directly   *)
(* (at any time) or by the routes POST /annotations/:id/resolve,            *)
(* DELETE /annotations/:id and DELETE /annotations of a listening server    *)

\* a server that awaits the screenshot callback without yielding: no request
\* is handled while a callback is pending
Callable_blockedByCallback(via) ==
  \/ via = "direct"
  \/ server = "listening" /\ \A s \in Slots : reqs[s].pc # "screenshot"

Callable(via) == via = "direct" \/ server = "listening"

\* GET /annotations: the list, 200
List ==
  /\ Callable("http")
  /\ last' = Ev("list", 200, "none")
  /\ UNCHANGED <<annotations, persistTimer, timers, persistFile, reqs, nextId, lastMutation,
                 deletedIds, Lifecycle, Ghosts>>
  /\ UNCHANGED Latch
  /\ UNCHANGED <<origin, Overlap>>

\* a resolve that flips the status: resolving a resolved annotation reopens it
Resolve_toggles(via, id) ==
  /\ Callable(via)
  /\ IF id \notin IdsOf(annotations)
       THEN /\ last' = NotFound("resolve")
            /\ UNCHANGED <<annotations, persistTimer, timers, lastMutation>>
       ELSE /\ annotations' =
                 MapSet(annotations,
                        [Lookup(annotations, id) EXCEPT
                           !.status = IF @ = "resolved" THEN "open" ELSE "resolved"])
            /\ Schedule
            /\ lastMutation' = Mutated
            /\ last' = Ev("resolve", 200, "none")
  /\ UNCHANGED <<persistFile, reqs, nextId, deletedIds, Lifecycle, Ghosts>>
  /\ UNCHANGED Latch
  /\ UNCHANGED <<origin, Overlap>>

\* resolveAnnotation(id) and POST /annotations/:id/resolve: undefined / 404 when
\* the Map has no such key, else status = "resolved" and a flush is scheduled
Resolve(via, id) ==
  /\ Callable(via)
  /\ IF id \notin IdsOf(annotations)
       THEN /\ last' = NotFound("resolve")
            /\ UNCHANGED <<annotations, persistTimer, timers, lastMutation>>
       ELSE /\ annotations' = MapSet(annotations,
                                     [Lookup(annotations, id) EXCEPT !.status = "resolved"])
            /\ Schedule
            /\ lastMutation' = Mutated
            /\ last' = Ev("resolve", 200, "none")
  /\ UNCHANGED <<persistFile, reqs, nextId, deletedIds, Lifecycle, Ghosts>>
  /\ UNCHANGED Latch
  /\ UNCHANGED <<origin, Overlap>>

\* a delete that reports success whether or not the id is in the store
Delete_alwaysSucceeds(via, id) ==
  /\ Callable(via)
  /\ annotations' = MapDelete(annotations, id)
  /\ reqs' = Detach(reqs, {id} \cap IdsOf(annotations), annotations)
  /\ deletedIds' = deletedIds \cup ({id} \cap IdsOf(annotations))
  /\ Schedule
  /\ lastMutation' = Mutated
  /\ last' = Ev("delete", 200, "none")
  /\ UNCHANGED <<persistFile, nextId, Lifecycle, Ghosts>>
  /\ UNCHANGED Latch
  /\ UNCHANGED <<origin, Overlap>>

\* deleteAnnotation(id) and DELETE /annotations/:id: false / 404 when the Map
\* has no such key, else the record is removed and a flush scheduled
Delete(via, id) ==
  /\ Callable(via)
  /\ IF id \notin IdsOf(annotations)
       THEN /\ last' = NotFound("delete")
            /\ UNCHANGED <<annotations, persistTimer, timers, lastMutation, reqs, deletedIds>>
       ELSE /\ annotations' = MapDelete(annotations, id)
            /\ reqs' = Detach(reqs, {id}, annotations)
            /\ deletedIds' = deletedIds \cup {id}
            /\ Schedule
            /\ lastMutation' = Mutated
            /\ last' = Ev("delete", 200, "none")
  /\ UNCHANGED <<persistFile, nextId, Lifecycle, Ghosts>>
  /\ UNCHANGED Latch
  /\ UNCHANGED <<origin, Overlap>>

\* a clear that takes the size of the Map after it has emptied it
Clear_countsAfterClear(via) ==
  /\ Callable(via)
  /\ annotations' = <<>>
  /\ reqs' = Detach(reqs, IdsOf(annotations), annotations)
  /\ deletedIds' = deletedIds \cup IdsOf(annotations)
  /\ IF Len(annotations) > 0
       THEN Schedule /\ lastMutation' = Mutated
       ELSE UNCHANGED <<persistTimer, timers, lastMutation>>
  /\ last' = Cleared(Len(annotations'))
  /\ UNCHANGED <<persistFile, nextId, Lifecycle, Ghosts>>
  /\ UNCHANGED Latch
  /\ UNCHANGED <<origin, Overlap>>

\* clearAnnotations() and DELETE /annotations: the size is taken, the Map is
\* emptied, a flush is scheduled when something was removed
Clear(via) ==
  /\ Callable(via)
  /\ annotations' = <<>>
  /\ reqs' = Detach(reqs, IdsOf(annotations), annotations)
  /\ deletedIds' = deletedIds \cup IdsOf(annotations)
  /\ IF Len(annotations) > 0
       THEN Schedule /\ lastMutation' = Mutated
       ELSE UNCHANGED <<persistTimer, timers, lastMutation>>
  /\ last' = Cleared(Len(annotations))
  /\ UNCHANGED <<persistFile, nextId, Lifecycle, Ghosts>>
  /\ UNCHANGED Latch
  /\ UNCHANGED <<origin, Overlap>>

-----------------------------------------------------------------------------
(* getAnnotations(), getAnnotation(id), resolveAnnotation(id): what their    *)
(* callers are handed, and what a caller's assignment to it does            *)

\* a record handed out: the object the Map holds, not a copy of it
Ref(id) == [byRef |-> TRUE, id |-> id]
\* getAnnotation(id): this.annotations.get(id)
getAnnotation(store, id) == IF id \in IdsOf(store) THEN Ref(id) ELSE Absent
\* getAnnotations(): Array.from(this.annotations.values()), a new array of the
\* objects the Map holds
getAnnotations(store) == [i \in 1..Len(store) |-> Ref(store[i].id)]
\* the caller's `record.text = text`
Assign(store, handle, text) ==
  IF handle.byRef /\ handle.id \in IdsOf(store)
    THEN MapSet(store, [Lookup(store, handle.id) EXCEPT !.text = text])
    ELSE store

Getters == {"getAnnotation", "getAnnotations", "resolveAnnotation"}
CallerTexts == {StrOfLen(9)}

\* what a getter returned for an id, as the caller read it at that moment
Got(getter, id, value) ==
  [op |-> getter, status |-> 0, io |-> "none", error |-> "none", id |-> id, value |-> value]
\* a caller has assigned to a record it was handed
Edited(getter, id, returned) ==
  [op |-> "callerEdit", status |-> 0, io |-> "none", error |-> "none", getter |-> getter,
   id |-> id, returned |-> returned]

\* getAnnotation(id), read by the caller
GetAnnotation(id) ==
  /\ last' = Got("getAnnotation", id,
                 IF getAnnotation(annotations, id) = Absent THEN Absent
                 ELSE Lookup(annotations, id))
  /\ UNCHANGED <<annotations, persistTimer, timers, persistFile, reqs, nextId, lastMutation,
                 deletedIds, Lifecycle, Ghosts>>
  /\ UNCHANGED Latch
  /\ UNCHANGED <<origin, Overlap>>

\* a collaborator in the same process calls a getter for a record of the store
\* and assigns to the text of what it was handed
CallerEdits(getter, id, text) ==
  /\ id \in IdsOf(annotations)
  /\ LET resolved == getter = "resolveAnnotation"
         store == IF resolved
                    THEN MapSet(annotations, [Lookup(annotations, id) EXCEPT !.status = "resolved"])
                    ELSE annotations
         handle == IF getter = "getAnnotation" THEN getAnnotation(store, id)
                   ELSE IF getter = "getAnnotations" THEN getAnnotations(store)[IndexOf(store, id)]
                   ELSE Ref(id)
     IN /\ annotations' = Assign(store, handle, text)
        /\ last' = Edited(getter, id, Lookup(store, id))
        /\ IF resolved
             THEN Schedule /\ lastMutation' = Mutated
             ELSE UNCHANGED <<persistTimer, timers, lastMutation>>
  /\ UNCHANGED <<persistFile, reqs, nextId, deletedIds, Lifecycle, Ghosts>>
  /\ UNCHANGED Latch
  /\ UNCHANGED <<origin, Overlap>>

-----------------------------------------------------------------------------
(* start(options) *)

\* up to the first await this.listen(port): the flag, then the load
StartBegin(persist) ==
  /\ server = "none"
  /\ startPc = "idle"
  /\ persistEnabled' = persist
  /\ IF persist
       THEN /\ annotations' = loadPersistedAnnotations(annotations, persistFile)
            /\ last' = Ev("none", 0, "load")
       ELSE /\ annotations' = annotations
            /\ last' = Quiet
  /\ startPc' = "listen"
  /\ fresh' = FALSE
  /\ shutdownFlush' = NoFlush
  /\ UNCHANGED <<persistTimer, timers, server, port, portFile, persistFile, screenshotCallback,
                 reqs, nextId, lastMutation, deletedIds>>
  /\ UNCHANGED Latch
  /\ UNCHANGED <<origin, Overlap>>

\* the first port of portsToTry that is free, 0 when all four are in use
firstFreePort(busy) ==
  IF \A i \in 1..Len(portsToTry) : portsToTry[i] \in busy THEN 0
  ELSE portsToTry[CHOOSE i \in 1..Len(portsToTry) :
                    /\ portsToTry[i] \notin busy
                    /\ \A j \in 1..(i - 1) : portsToTry[j] \in busy]

\* writePortFile: the record of this process, written over whatever is there
writePortFile(p) ==
  [kind |-> "json", value |-> [port |-> p, pid |-> "pid", startedAt |-> "now"]]

\* a deletePortFile that rethrows every error of unlinkSync
deletePortFile_rethrowsMissing(file) ==
  [file |-> NoFile, threw |-> file = NoFile, swallowed |-> FALSE]

\* deletePortFile: unlinkSync, whose ENOENT (the file is missing) is swallowed
deletePortFile(file) ==
  [file |-> NoFile, threw |-> FALSE, swallowed |-> file = NoFile]

\* a readPortFile without the try: the error of readFileSync or JSON.parse escapes
readPortFile_unguarded(file) ==
  IF file.kind = "json" THEN file.value ELSE [threw |-> file.kind]

\* readPortFile: the parsed content, null when readFileSync or JSON.parse throws
readPortFile(file) ==
  IF file.kind = "json" THEN file.value ELSE JsNull

\* the bind loop: the server listens on the first free port and the port file is
\* written, or every port is in use and start throws
StartListen(busy) ==
  /\ startPc = "listen"
  /\ startPc' = "idle"
  /\ IF firstFreePort(busy) = 0
       THEN /\ last' = Ev("start", 500, "none")
            /\ UNCHANGED <<server, port, portFile>>
       ELSE /\ server' = "listening"
            /\ port' = firstFreePort(busy)
            /\ portFile' = writePortFile(firstFreePort(busy))
            /\ last' = Started("start", firstFreePort(busy))
  /\ UNCHANGED <<annotations, persistEnabled, persistTimer, timers, persistFile,
                 screenshotCallback, reqs, nextId, lastMutation, deletedIds, shutdownFlush,
                 fresh>>
  /\ UNCHANGED Latch
  /\ UNCHANGED <<origin, Overlap>>

\* a start that does not look at this.server: it loads and binds again
StartRunning_bindsAgain(persist) ==
  /\ server # "none"
  /\ persistEnabled' = persist
  /\ annotations' = IF persist THEN loadPersistedAnnotations(annotations, persistFile)
                    ELSE annotations
  /\ port' = firstFreePort({port})
  /\ portFile' = writePortFile(firstFreePort({port}))
  /\ last' = Started("start while running", firstFreePort({port}))
  /\ UNCHANGED <<persistTimer, timers, server, startPc, persistFile, screenshotCallback,
                 reqs, nextId, lastMutation, deletedIds, shutdownFlush, fresh>>
  /\ UNCHANGED Latch
  /\ UNCHANGED <<origin, Overlap>>

\* start(options) while this.server is set: return this.port, nothing else
StartRunning(persist) ==
  /\ server # "none"
  /\ last' = Started("start while running", port)
  /\ UNCHANGED <<annotations, persistEnabled, persistTimer, timers, server, startPc, port,
                 portFile, persistFile, screenshotCallback, reqs, nextId, lastMutation,
                 deletedIds, shutdownFlush, fresh>>
  /\ UNCHANGED Latch
  /\ UNCHANGED <<origin, Overlap>>

\* start(options) called while an earlier call is suspended in
\* `await this.listen(port)`: this.server is still null, so the call goes on
\* to set the flag, to load, and to its own bind loop
StartAgainBegin(persist) ==
  /\ server = "none"
  /\ startPc = "listen"
  /\ secondStart = "idle"
  /\ persistEnabled' = persist
  /\ IF persist
       THEN /\ annotations' = loadPersistedAnnotations(annotations, persistFile)
            /\ last' = Ev("none", 0, "load")
       ELSE /\ annotations' = annotations
            /\ last' = Quiet
  /\ secondStart' = "listen"
  /\ fresh' = FALSE
  /\ shutdownFlush' = NoFlush
  /\ UNCHANGED <<persistTimer, timers, server, startPc, port, portFile, persistFile,
                 screenshotCallback, reqs, nextId, lastMutation, deletedIds, orphaned>>
  /\ UNCHANGED Latch
  /\ UNCHANGED origin

\* the bind loop of that call, after the earlier call has bound: the port of
\* the earlier server is in use (EADDRINUSE), so a second http server listens
\* on the next free port; this.server, this.port and the port file are
\* overwritten and the earlier server keeps listening, referred to by nothing
StartAgainListen(busy) ==
  /\ secondStart = "listen"
  /\ startPc = "idle"
  /\ secondStart' = "idle"
  /\ LET own == IF server = "none" THEN {} ELSE {port}
         p == firstFreePort(busy \cup own \cup orphaned)
     IN IF p = 0
          THEN /\ last' = Ev("start", 500, "none")
               /\ UNCHANGED <<server, port, portFile, orphaned>>
          ELSE /\ server' = "listening"
               /\ port' = p
               /\ portFile' = writePortFile(p)
               /\ orphaned' = orphaned \cup own
               /\ last' = Started("start again", p)
  /\ UNCHANGED <<annotations, persistEnabled, persistTimer, timers, persistFile,
                 screenshotCallback, reqs, nextId, lastMutation, deletedIds, shutdownFlush,
                 fresh, startPc>>
  /\ UNCHANGED Latch
  /\ UNCHANGED origin

-----------------------------------------------------------------------------
(* shutdown() *)

\* shutdown() while this.server is null: it returns at once
ShutdownIdle ==
  /\ server = "none"
  /\ last' = Ev("shutdown while stopped", 200, "none")
  /\ UNCHANGED <<annotations, persistEnabled, persistTimer, timers, server, startPc, port,
                 portFile, persistFile, screenshotCallback, reqs, nextId, lastMutation,
                 deletedIds, shutdownFlush, fresh>>
  /\ UNCHANGED Latch
  /\ UNCHANGED <<origin, Overlap>>

\* the synchronous part: flushPersist(), then this.server.close(...)
Shutdown ==
  /\ server # "none"
  /\ LET f == flushPersist(persistEnabled, persistTimer, timers, persistFile, annotations)
     IN /\ persistTimer' = f.pt
        /\ timers' = f.ts
        /\ persistFile' = f.file
        /\ last' = IF f.wrote THEN Ev("none", 0, "shutdownFlush") ELSE Quiet
        /\ shutdownFlush' = IF f.wrote THEN [valid |-> TRUE, store |-> annotations]
                            ELSE shutdownFlush
  /\ server' = "closing"
  /\ UNCHANGED <<annotations, persistEnabled, startPc, port, portFile, screenshotCallback,
                 reqs, nextId, lastMutation, deletedIds, fresh>>
  /\ UNCHANGED Latch
  /\ UNCHANGED <<origin, Overlap>>

\* the callback of close(): every connection has ended; the port file is
\* deleted, server and port are reset and shutdown's promise resolves
\* a close callback that leaves this.port as it was
ServerClosed_keepsPort ==
  /\ server = "closing"
  /\ \A s \in Slots : reqs[s] = Idle
  /\ portFile' = deletePortFile(portFile).file
  /\ server' = "none"
  /\ port' = port
  /\ last' = Ev("shutdown", 200, "none")
  /\ UNCHANGED <<annotations, persistEnabled, persistTimer, timers, startPc, persistFile,
                 screenshotCallback, reqs, nextId, lastMutation, deletedIds, shutdownFlush,
                 fresh>>
  /\ UNCHANGED Latch
  /\ UNCHANGED <<origin, Overlap>>

ServerClosed ==
  /\ server = "closing"
  /\ \A s \in Slots : reqs[s] = Idle
  /\ LET d == deletePortFile(portFile)
     IN IF d.threw
          \* the exception leaves the callback: server and port stay set and
          \* the promise of shutdown never resolves
          THEN /\ portFile' = d.file
               /\ last' = Err("shutdown", 500, "ENOENT")
               /\ UNCHANGED <<server, port>>
          ELSE /\ portFile' = d.file
               /\ server' = "none"
               /\ port' = 0
               /\ last' = IF d.swallowed THEN [Ev("shutdown", 200, "none") EXCEPT !.error = "ENOENT"]
                          ELSE Ev("shutdown", 200, "none")
  /\ UNCHANGED <<annotations, persistEnabled, persistTimer, timers, startPc, persistFile,
                 screenshotCallback, reqs, nextId, lastMutation, deletedIds, shutdownFlush,
                 fresh>>
  /\ UNCHANGED Latch
  /\ UNCHANGED <<origin, Overlap>>

-----------------------------------------------------------------------------
(* The port file: readPortFile() of any process, and what other processes   *)
(* do at its path                                                            *)

ReadPortFile ==
  /\ last' = Read(readPortFile(portFile))
  /\ UNCHANGED <<annotations, persistEnabled, persistTimer, timers, server, startPc, port,
                 portFile, persistFile, screenshotCallback, reqs, nextId, lastMutation,
                 deletedIds, shutdownFlush, fresh>>
  /\ UNCHANGED Latch
  /\ UNCHANGED <<origin, Overlap>>

\* another process removes the file, leaves text at its path that is not JSON,
\* or is a server that starts and writes its own record
PortFileReplaced(file) ==
  /\ portFile # file
  /\ portFile' = file
  /\ last' = Quiet
  /\ UNCHANGED <<annotations, persistEnabled, persistTimer, timers, server, startPc, port,
                 persistFile, screenshotCallback, reqs, nextId, lastMutation,
                 deletedIds, shutdownFlush, fresh>>
  /\ UNCHANGED Latch
  /\ UNCHANGED <<origin, Overlap>>

-----------------------------------------------------------------------------
(* Requests that no annotation route handles, and the origin check          *)

\* the pages that send requests are of another origin from now on
Navigate(o) ==
  /\ origin # o
  /\ \A s \in Slots : reqs[s] = Idle
  /\ origin' = o
  /\ last' = Quiet
  /\ UNCHANGED Overlap
  /\ UNCHANGED <<annotations, persistTimer, timers, persistFile, reqs, nextId, lastMutation,
                 deletedIds, Lifecycle, Ghosts>>
  /\ UNCHANGED Latch

\* isAllowedOrigin called by a collaborator
CheckOrigin(o) ==
  /\ last' = Checked(o, isAllowedOrigin(o))
  /\ UNCHANGED <<annotations, persistTimer, timers, persistFile, reqs, nextId, lastMutation,
                 deletedIds, Lifecycle, Ghosts>>
  /\ UNCHANGED Latch
  /\ UNCHANGED <<origin, Overlap>>

\* OPTIONS on any path: 204 with the CORS headers, before any route is looked at
Preflight(path) ==
  /\ server = "listening"
  /\ last' = Preflighted(path)
  /\ UNCHANGED <<annotations, persistTimer, timers, persistFile, reqs, nextId, lastMutation,
                 deletedIds, Lifecycle, Ghosts>>
  /\ UNCHANGED Latch
  /\ UNCHANGED <<origin, Overlap>>

\* GET /: the health check
Health ==
  /\ server = "listening"
  /\ last' = Ev("health", 200, "none")
  /\ UNCHANGED <<annotations, persistTimer, timers, persistFile, reqs, nextId, lastMutation,
                 deletedIds, Lifecycle, Ghosts>>
  /\ UNCHANGED Latch
  /\ UNCHANGED <<origin, Overlap>>

\* a method and path that no route takes: 404 { error: "Not found" }
NoRoute ==
  /\ server = "listening"
  /\ last' = Err("route", 404, "Not found")
  /\ UNCHANGED <<annotations, persistTimer, timers, persistFile, reqs, nextId, lastMutation,
                 deletedIds, Lifecycle, Ghosts>>
  /\ UNCHANGED Latch
  /\ UNCHANGED <<origin, Overlap>>

-----------------------------------------------------------------------------
(* The passage of time and the timer callback *)

Tick ==
  /\ \/ lastMutation.ms < PERSIST_DEBOUNCE_MS
     \/ \E i \in 1..Len(timers) : timers[i] < PERSIST_DEBOUNCE_MS
     \/ sendLatch = "waiting" /\ waiter.elapsed < waiter.timeout
  /\ waiter' = IF sendLatch = "waiting"
                 THEN [waiter EXCEPT !.elapsed = Min(@ + TickMs, waiter.timeout)]
                 ELSE waiter
  /\ timers' = [i \in 1..Len(timers) |-> Min(timers[i] + TickMs, PERSIST_DEBOUNCE_MS)]
  /\ lastMutation' = [lastMutation EXCEPT !.ms = Min(@ + TickMs, PERSIST_DEBOUNCE_MS)]
  /\ last' = Quiet
  /\ UNCHANGED <<annotations, persistEnabled, persistTimer, server, startPc, port, portFile,
                 persistFile, screenshotCallback, reqs, nextId, deletedIds,
                 shutdownFlush, fresh, sendLatch, sendLog, origin, Overlap>>

\* a timer callback that forgets the handle and does not flush
TimerFire_withoutFlush(i) ==
  /\ i \in 1..Len(timers)
  /\ timers[i] >= PERSIST_DEBOUNCE_MS
  /\ persistTimer' = 0
  /\ timers' = clearTimeout(timers, i)
  /\ last' = Quiet
  /\ UNCHANGED <<annotations, persistEnabled, server, startPc, port, portFile, persistFile,
                 screenshotCallback, reqs, nextId, lastMutation, deletedIds, fresh,
                 shutdownFlush>>
  /\ UNCHANGED Latch
  /\ UNCHANGED <<origin, Overlap>>

\* the timeout armed by schedulePersist runs: this.persistTimer = null; this.flushPersist()
TimerFire(i) ==
  /\ i \in 1..Len(timers)
  /\ timers[i] >= PERSIST_DEBOUNCE_MS
  /\ LET f == flushPersist(persistEnabled, 0, clearTimeout(timers, i), persistFile, annotations)
     IN /\ persistTimer' = f.pt
        /\ timers' = f.ts
        /\ persistFile' = f.file
        /\ last' = IF f.wrote THEN Ev("none", 0, "timerFlush") ELSE Quiet
        /\ shutdownFlush' = IF f.wrote THEN NoFlush ELSE shutdownFlush
  /\ UNCHANGED <<annotations, persistEnabled, server, startPc, port, portFile,
                 screenshotCallback, reqs, nextId, lastMutation, deletedIds, fresh>>
  /\ UNCHANGED Latch
  /\ UNCHANGED <<origin, Overlap>>

-----------------------------------------------------------------------------
(* The process ends after a clean shutdown and a new process constructs a   *)
(* new AnnotationServer: memory and timers are gone, the files stay         *)

NewProcess ==
  /\ server = "none" /\ startPc = "idle" /\ ~fresh
  /\ annotations' = <<>>
  /\ persistEnabled' = FALSE
  /\ persistTimer' = 0
  /\ timers' = <<>>
  /\ screenshotCallback' = FALSE
  /\ lastMutation' = NoMutation
  /\ deletedIds' = {}
  /\ fresh' = TRUE
  /\ last' = Quiet
  /\ sendLatch' = "idle"
  /\ waiter' = NoWaiter
  /\ sendLog' = <<>>
  /\ secondStart' = "idle"
  /\ orphaned' = {}
  /\ UNCHANGED <<server, startPc, port, portFile, persistFile, reqs, nextId, shutdownFlush,
                 origin>>

-----------------------------------------------------------------------------
(* The send latch: POST /annotations/send, consumeSentState(), waitForSend(ms). *)
(* The AnnotationServer of src/ has none of the three: they are modelled from *)
(* the specification of the latch as a tagged state idle / latched / waiting. *)

\* the log keeps the MaxLog most recent events
Logged(log, e) ==
  LET all == Append(log, e)
  IN IF Len(all) <= MaxLog THEN all ELSE SubSeq(all, Len(all) - MaxLog + 1, Len(all))

\* a send that only sets the latch, whether or not a waiter is active
SendTrigger_onlyLatches ==
  /\ server = "listening"
  /\ sendLatch' = "latched"
  /\ waiter' = waiter
  /\ sendLog' = Logged(sendLog, "send")
  /\ last' = Ev("send", 200, "none")
  /\ UNCHANGED <<annotations, persistTimer, timers, persistFile, reqs, nextId, lastMutation,
                 deletedIds, Lifecycle, Ghosts, origin, Overlap>>

\* POST /annotations/send: an active waiter is woken with triggered = true,
\* otherwise the latch is set; the response is 200
SendTrigger ==
  /\ server = "listening"
  /\ IF sendLatch = "waiting"
       THEN /\ sendLatch' = "idle"
            /\ waiter' = NoWaiter
            /\ sendLog' = Logged(sendLog, "wake")
       ELSE /\ sendLatch' = "latched"
            /\ waiter' = waiter
            /\ sendLog' = Logged(sendLog, "send")
  /\ last' = Ev("send", 200, "none")
  /\ UNCHANGED <<annotations, persistTimer, timers, persistFile, reqs, nextId, lastMutation,
                 deletedIds, Lifecycle, Ghosts, origin, Overlap>>

\* a consumeSentState that reads the latch and leaves it set
ConsumeSentState_noReset ==
  /\ sendLog' = Logged(sendLog, IF sendLatch = "latched" THEN "consumeTrue" ELSE "consumeFalse")
  /\ last' = Quiet
  /\ UNCHANGED <<annotations, persistTimer, timers, persistFile, reqs, nextId, lastMutation,
                 deletedIds, Lifecycle, Ghosts, waiter, sendLatch, origin, Overlap>>

\* consumeSentState(): whether a send is latched; the latch is reset
ConsumeSentState ==
  /\ sendLog' = Logged(sendLog, IF sendLatch = "latched" THEN "consumeTrue" ELSE "consumeFalse")
  /\ sendLatch' = IF sendLatch = "latched" THEN "idle" ELSE sendLatch
  /\ last' = Quiet
  /\ UNCHANGED <<annotations, persistTimer, timers, persistFile, reqs, nextId, lastMutation,
                 deletedIds, Lifecycle, Ghosts, waiter, origin, Overlap>>

\* a waitForSend that resolves at once on a latched send and leaves the latch set
WaitForSend_keepsLatch(timeoutMs) ==
  /\ sendLatch # "waiting"
  /\ IF sendLatch = "latched"
       THEN /\ sendLatch' = "latched"
            /\ waiter' = NoWaiter
            /\ sendLog' = Logged(sendLog, "waitTrue")
       ELSE /\ sendLatch' = "waiting"
            /\ waiter' = [timeout |-> timeoutMs, elapsed |-> 0]
            /\ sendLog' = Logged(sendLog, "waitPending")
  /\ last' = Quiet
  /\ UNCHANGED <<annotations, persistTimer, timers, persistFile, reqs, nextId, lastMutation,
                 deletedIds, Lifecycle, Ghosts, origin, Overlap>>

\* waitForSend(timeoutMs): resolves at once when a send is latched, else the
\* caller becomes the active waiter and its timeout is armed
WaitForSend(timeoutMs) ==
  /\ sendLatch # "waiting"
  /\ IF sendLatch = "latched"
       THEN /\ sendLatch' = "idle"
            /\ waiter' = NoWaiter
            /\ sendLog' = Logged(sendLog, "waitTrue")
       ELSE /\ sendLatch' = "waiting"
            /\ waiter' = [timeout |-> timeoutMs, elapsed |-> 0]
            /\ sendLog' = Logged(sendLog, "waitPending")
  /\ last' = Quiet
  /\ UNCHANGED <<annotations, persistTimer, timers, persistFile, reqs, nextId, lastMutation,
                 deletedIds, Lifecycle, Ghosts, origin, Overlap>>

\* a timeout that compares the elapsed time strictly and so never runs
WaitTimeout_strict ==
  /\ sendLatch = "waiting"
  /\ waiter.elapsed > waiter.timeout
  /\ sendLatch' = "idle"
  /\ waiter' = NoWaiter
  /\ sendLog' = Logged(sendLog, "waitFalse")
  /\ last' = Quiet
  /\ UNCHANGED <<annotations, persistTimer, timers, persistFile, reqs, nextId, lastMutation,
                 deletedIds, Lifecycle, Ghosts, origin, Overlap>>

\* the timeout of the active waiter runs: the wait resolves with triggered = false
WaitTimeout ==
  /\ sendLatch = "waiting"
  /\ waiter.elapsed >= waiter.timeout
  /\ sendLatch' = "idle"
  /\ waiter' = NoWaiter
  /\ sendLog' = Logged(sendLog, "waitFalse")
  /\ last' = Quiet
  /\ UNCHANGED <<annotations, persistTimer, timers, persistFile, reqs, nextId, lastMutation,
                 deletedIds, Lifecycle, Ghosts, origin, Overlap>>

-----------------------------------------------------------------------------

NoneInFlight == \A s \in Slots : reqs[s] = Idle

(* The request scenario: concurrent requests and direct calls against a     *)
(* server started without persistence                                       *)

Next ==
  \/ OnScreenshot
  \/ List
  \/ CreateBegin
  \/ \E s \in Slots, body \in Bodies : CreateBodyRead(s, body)
  \/ \E s \in Slots, outcome \in ScreenshotOutcomes : CreateScreenshotDone(s, outcome)
  \/ \E id \in TargetIds : PatchBegin(id)
  \/ \E s \in Slots, text \in PatchTexts : PatchBodyRead(s, text)
  \/ \E via \in {"direct", "http"}, id \in TargetIds : Resolve(via, id)
  \/ \E via \in {"direct", "http"}, id \in TargetIds : Delete(via, id)
  \/ \E via \in {"direct", "http"} : Clear(via)
  \/ StartBegin(FALSE)
  \/ \E busy \in BusyPortSets : StartListen(busy)
  \/ Shutdown
  \/ ServerClosed
  \/ NewProcess

Spec == Init /\ [][Next]_vars

(* The persistence scenario: sessions with and without persistence, the     *)
(* debounce timer, process restarts; requests arrive one at a time and no   *)
(* screenshot callback is registered                                        *)

NextPersist ==
  \/ CreateBegin /\ NoneInFlight
  \/ \E s \in Slots, body \in Bodies : CreateBodyRead(s, body)
  \/ PatchBegin(FirstFreshId) /\ NoneInFlight
  \/ \E s \in Slots, text \in PatchTexts : PatchBodyRead(s, text)
  \/ \E via \in {"direct", "http"}, id \in TargetIds : Resolve(via, id)
  \/ \E via \in {"direct", "http"}, id \in TargetIds : Delete(via, id)
  \/ \E via \in {"direct", "http"} : Clear(via)
  \/ \E persist \in BOOLEAN : StartBegin(persist)
  \/ \E busy \in BusyPortSets : StartListen(busy)
  \/ Shutdown
  \/ ServerClosed
  \/ Tick
  \/ \E i \in 1..Len(timers) : TimerFire(i)
  \/ NewProcess

SpecPersist == Init /\ [][NextPersist]_vars

(* The capacity scenario: a previous run left a snapshot of                 *)
(* MAX_ANNOTATIONS - 1 records, which a start with persistence loads        *)

InitCapacity == Constructed(SeedFile)

NextCapacity ==
  \/ CreateBegin
  \/ \E s \in Slots, body \in {PlainBody, BadViewportBody} : CreateBodyRead(s, body)
  \/ \E via \in {"direct", "http"}, id \in {SeedId} \cup TargetIds : Delete(via, id)
  \/ \E via \in {"direct", "http"} : Clear(via)
  \/ \E persist \in BOOLEAN : StartBegin(persist)
  \/ \E busy \in BusyPortSets : StartListen(busy)
  \/ Shutdown
  \/ ServerClosed

SpecCapacity == InitCapacity /\ [][NextCapacity]_vars

(* The load scenario: start finds whatever a previous run, or another      *)
(* program, left at the snapshot path                                        *)

SnapshotFiles ==
  {NoFile, GarbageFile,
   JsonValueFile(JsNull), JsonValueFile(JsObject), JsonValueFile(JsChars(<<"a", "b">>)),
   JsonFile(<<>>),
   JsonFile(<<SeedAnnotation(SeedId)>>),
   JsonFile(<<SeedAnnotation(SeedId), JsNull>>),
   JsonFile(<<JsNull, SeedAnnotation(SeedId)>>),
   JsonFile(<<SeedAnnotation(SeedId), JsNum(5)>>)}

InitLoad == \E file \in SnapshotFiles : Constructed(file)

NextLoad ==
  \/ CreateBegin /\ NoneInFlight
  \/ \E s \in Slots : CreateBodyRead(s, PlainBody)
  \/ \E id \in {SeedId} \cup TargetIds : Delete("direct", id)
  \/ \E persist \in BOOLEAN : StartBegin(persist)
  \/ \E busy \in BusyPortSets : StartListen(busy)
  \/ Shutdown
  \/ ServerClosed
  \/ NewProcess

SpecLoad == InitLoad /\ [][NextLoad]_vars

(* The send scenario: sends, polls and waits against a server that is      *)
(* started and shut down; timers fire when they are due                      *)

WaitTimeouts == {50, 5000}

NextSend ==
  \/ SendTrigger
  \/ ConsumeSentState
  \/ \E timeoutMs \in WaitTimeouts : WaitForSend(timeoutMs)
  \/ WaitTimeout
  \/ Tick
  \/ StartBegin(FALSE)
  \/ \E busy \in BusyPortSets : StartListen(busy)
  \/ Shutdown
  \/ ServerClosed

SpecSend == Init /\ [][NextSend]_vars /\ WF_vars(Tick) /\ WF_vars(WaitTimeout)

(* The validation scenario: bodies at and over each limit against a server  *)
(* started with persistence                                                 *)

Element(n) == [selector |-> StrOfLen(n)]

ValidationBodies ==
  {PlainBody, BadViewportBody,
   [PlainBody EXCEPT !.text = StrOfLen(MAX_TEXT_LENGTH)],
   [PlainBody EXCEPT !.text = StrOfLen(MAX_TEXT_LENGTH + 1)],
   [PlainBody EXCEPT !.text = StrOfLen(MAX_BODY_BYTES + 1)],
   [PlainBody EXCEPT !.text = JsNum(12345)],
   [PlainBody EXCEPT !.urlType = "number"],
   [PlainBody EXCEPT !.selector = StrOfLen(MAX_SELECTOR_LENGTH)],
   [PlainBody EXCEPT !.selector = StrOfLen(MAX_SELECTOR_LENGTH + 1)],
   [PlainBody EXCEPT !.elements = <<Element(8), Element(MAX_SELECTOR_LENGTH)>>],
   [PlainBody EXCEPT !.elements = <<Element(8), Element(MAX_SELECTOR_LENGTH + 1)>>],
   [PlainBody EXCEPT !.elements = <<JsNull, Element(MAX_SELECTOR_LENGTH + 1)>>]}

ValidationTexts ==
  {StrOfLen(6), StrOfLen(MAX_TEXT_LENGTH), StrOfLen(MAX_TEXT_LENGTH + 1),
   StrOfLen(MAX_BODY_BYTES + 1), JsNum(7), Absent}

\* bodies that make the handler throw before it has validated anything
FaultBodies == {NotJson, JsNull}
FaultTexts == {NotJson}

NextValidate ==
  \/ CreateBegin
  \/ \E s \in Slots, body \in ValidationBodies \cup FaultBodies : CreateBodyRead(s, body)
  \/ \E id \in TargetIds : PatchBegin(id)
  \/ \E s \in Slots, text \in ValidationTexts \cup FaultTexts : PatchBodyRead(s, text)
  \/ \E id \in TargetIds : Delete("http", id)
  \/ StartBegin(TRUE)
  \/ \E busy \in BusyPortSets : StartListen(busy)
  \/ Tick
  \/ \E i \in 1..Len(timers) : TimerFire(i)

SpecValidate == Init /\ [][NextValidate]_vars

(* The life-cycle scenario: start and shutdown called in every state, the   *)
(* port file read, and removed or rewritten by other processes; a previous  *)
(* run may have left a snapshot                                             *)

InitLifecycle == \E file \in {NoFile, JsonFile(<<SeedAnnotation(SeedId)>>)} : Constructed(file)

\* the port of a server of another process
otherPort == basePort + 4
PortFiles == {NoFile, GarbageFile, writePortFile(otherPort)}

NextLifecycle ==
  \/ \E persist \in BOOLEAN : StartBegin(persist)
  \/ \E busy \in BusyPortSets : StartListen(busy)
  \/ \E persist \in BOOLEAN : StartRunning(persist)
  \/ Shutdown
  \/ ShutdownIdle
  \/ ServerClosed
  \/ ReadPortFile
  \/ \E file \in PortFiles : PortFileReplaced(file)
  \/ CreateBegin /\ NoneInFlight
  \/ \E s \in Slots : CreateBodyRead(s, PlainBody)
  \/ NewProcess

SpecLifecycle == InitLifecycle /\ [][NextLifecycle]_vars

(* The origin scenario: requests of pages of several origins, and the       *)
(* origin check called directly                                             *)

\* origins whose URL has scheme http or https and a loopback host
LoopbackOrigins ==
  {JsStr(<<"h", "t", "t", "p", ":", "/", "/", "l", "o", "c", "a", "l", "h", "o", "s", "t">>),
   JsStr(<<"h", "t", "t", "p", ":", "/", "/", "l", "o", "c", "a", "l", "h", "o", "s", "t", ":", "5", "1", "7", "3">>),
   JsStr(<<"h", "t", "t", "p", "s", ":", "/", "/", "l", "o", "c", "a", "l", "h", "o", "s", "t", ":", "3", "0", "0", "0">>),
   JsStr(<<"h", "t", "t", "p", ":", "/", "/", "1", "2", "7", ".", "0", ".", "0", ".", "1">>),
   JsStr(<<"h", "t", "t", "p", ":", "/", "/", "1", "2", "7", ".", "0", ".", "0", ".", "1", ":", "8", "0", "8", "0">>),
   JsStr(<<"h", "t", "t", "p", ":", "/", "/", "[", ":", ":", "1", "]">>),
   JsStr(<<"H", "T", "T", "P", ":", "/", "/", "L", "O", "C", "A", "L", "H", "O", "S", "T">>)}
\* undefined, the empty string, text that is no URL, other schemes, other hosts
EvilSubdomain == JsStr(<<"h", "t", "t", "p", ":", "/", "/", "l", "o", "c", "a", "l", "h", "o", "s", "t", ".", "e", "v", "i", "l", ".", "c", "o", "m">>)
OtherOrigins ==
  {Absent,
   JsStr(<<>>),
   EvilSubdomain,
   JsStr(<<"h", "t", "t", "p", "s", ":", "/", "/", "e", "v", "i", "l", ".", "c", "o", "m">>),
   JsStr(<<"f", "t", "p", ":", "/", "/", "l", "o", "c", "a", "l", "h", "o", "s", "t">>),
   JsStr(<<"f", "i", "l", "e", ":", "/", "/", "/", "e", "t", "c", "/", "p", "a", "s", "s", "w", "d">>),
   JsStr(<<"n", "o", "t", "-", "a", "-", "u", "r", "l">>),
   JsStr(<<"n", "u", "l", "l">>),
   JsStr(<<"h", "t", "t", "p", ":", "/", "/", "l", "o", "c", "a", "l", "h", "o", "s", "t", "@", "e", "v", "i", "l", ".", "c", "o", "m">>),
   JsStr(<<"h", "t", "t", "p", ":", "/", "/", "e", "v", "i", "l", ".", "c", "o", "m", "/", "l", "o", "c", "a", "l", "h", "o", "s", "t">>)}
Origins == LoopbackOrigins \cup OtherOrigins

Paths == {"/", "/annotations", "/annotations/50", "/annotations/50/resolve", "/unknown"}

NextCors ==
  \/ \E o \in Origins : Navigate(o)
  \/ \E o \in Origins : CheckOrigin(o)
  \/ \E path \in Paths : Preflight(path)
  \/ Health
  \/ NoRoute
  \/ List
  \/ CreateBegin
  \/ \E s \in Slots, body \in {PlainBody, BadViewportBody, NotJson} : CreateBodyRead(s, body)
  \/ Resolve("http", FirstFreshId)
  \/ Delete("http", FirstFreshId)
  \/ Clear("http")
  \/ StartBegin(FALSE)
  \/ \E busy \in BusyPortSets : StartListen(busy)

SpecCors == Init /\ [][NextCors]_vars

(* The caller scenario: collaborators in the process read records through   *)
(* the getters and assign to what they were handed                          *)

NextCallers ==
  \/ StartBegin(FALSE)
  \/ \E busy \in BusyPortSets : StartListen(busy)
  \/ CreateBegin /\ NoneInFlight
  \/ \E s \in Slots : CreateBodyRead(s, PlainBody)
  \/ \E id \in TargetIds : GetAnnotation(id)
  \/ \E getter \in Getters, id \in TargetIds, text \in CallerTexts : CallerEdits(getter, id, text)
  \/ \E id \in TargetIds : Resolve("http", id)
  \/ \E id \in TargetIds : Delete("direct", id)
  \/ Clear("direct")
  \/ Shutdown
  \/ ServerClosed

SpecCallers == Init /\ [][NextCallers]_vars

(* The flush scenario: one process that is left running, its sessions      *)
(* started with persistence; the event loop runs the timers that are due    *)

NextFlush ==
  \/ StartBegin(TRUE)
  \/ \E busy \in BusyPortSets : StartListen(busy)
  \/ CreateBegin /\ NoneInFlight
  \/ \E s \in Slots : CreateBodyRead(s, PlainBody)
  \/ PatchBegin(FirstFreshId) /\ NoneInFlight
  \/ \E s \in Slots, text \in PatchTexts : PatchBodyRead(s, text)
  \/ \E via \in {"direct", "http"} : Resolve(via, FirstFreshId)
  \/ \E via \in {"direct", "http"} : Delete(via, FirstFreshId)
  \/ \E via \in {"direct", "http"} : Clear(via)
  \/ Shutdown
  \/ ServerClosed
  \/ Tick
  \/ \E i \in 1..Len(timers) : TimerFire(i)

SpecFlush ==
  Init /\ [][NextFlush]_vars /\ WF_vars(Tick) /\ WF_vars(\E i \in 1..Len(timers) : TimerFire(i))

(* The body scenario: request bodies arrive in chunks, up to and over the   *)
(* ceiling, at a server started with persistence                            *)

\* a create body of exactly MAX_BODY_BYTES bytes
FullBody == [PlainBody EXCEPT !.text = StrOfLen(MAX_BODY_BYTES - 8)]
StreamBodies == {PlainBody, FullBody}
StreamTexts == {StrOfLen(6), StrOfLen(MAX_BODY_BYTES)}
ChunkSizes == {1, 6, 12, 32768, 65536}

NextBody ==
  \/ StartBegin(TRUE)
  \/ \E busy \in BusyPortSets : StartListen(busy)
  \/ CreateBegin /\ NoneInFlight
  \/ PatchBegin(FirstFreshId) /\ NoneInFlight
  \/ \E s \in Slots, n \in ChunkSizes : BodyData(s, n)
  \/ \E s \in Slots, body \in StreamBodies : CreateBodyEnd(s, body)
  \/ \E s \in Slots, text \in StreamTexts : PatchBodyEnd(s, text)
  \/ \E s \in Slots : ConnectionClosed(s)

SpecBody == Init /\ [][NextBody]_vars

(* The overlap scenario: a second start() is issued while the first is      *)
(* suspended in its bind loop; shutdown is called once both have returned   *)

NextOverlap ==
  \/ StartBegin(FALSE)
  \/ StartAgainBegin(FALSE)
  \/ \E busy \in BusyPortSets : orphaned \subseteq busy /\ StartListen(busy)
  \/ \E busy \in BusyPortSets : StartAgainListen(busy)
  \/ StartRunning(FALSE)
  \/ Shutdown /\ secondStart = "idle"
  \/ ServerClosed
  \/ ReadPortFile
  \/ CreateBegin /\ NoneInFlight
  \/ \E s \in Slots : CreateBodyRead(s, PlainBody)
  \/ \E id \in TargetIds : Delete("direct", id)

SpecOverlap == Init /\ [][NextOverlap]_vars

-----------------------------------------------------------------------------
(* Properties *)

IsInsertStep == last'.op = "create" /\ last'.status = 201 /\ nextId' = nextId + 1
Inserted == annotations'[Len(annotations')]

\* C1: the store never holds more than MAX_ANNOTATIONS (50) annotations
C1_StoreWithinCapacity == Len(annotations) <= MAX_ANNOTATIONS

\* C2: the capacity check of create is atomic with the insertion: a POST
\* /annotations inserts its record only while the store is below capacity, so
\* of the requests in flight at 49 records at most one is admitted
C2_CheckAtomicWithInsert == [][IsInsertStep => ~atCapacity(annotations)]_vars

\* C3: a POST /annotations that arrives when the store holds 50 records (or
\* more) is answered 429 and changes nothing; one that arrives when the store is
\* below capacity, as after a delete, is admitted and, its body being valid,
\* answered 201 with its record stored
C3_RejectedAtCapacity ==
  /\ [][CreateBegin =>
         IF Len(annotations) >= MAX_ANNOTATIONS
           THEN last' = Ev("create", 429, "none") /\ annotations' = annotations /\ reqs' = reqs
           ELSE last'.status # 429 /\ reqs'[FreeSlot].pc = "readBody"]_vars
  /\ [][\A s \in Slots, body \in Bodies :
          /\ CreateBodyRead(s, body)
          /\ validateCreate(body) = 0 /\ ~wantsScreenshot(body, screenshotCallback)
          => last' = Ev("create", 201, "none") /\ Len(annotations') = Len(annotations) + 1]_vars
C3_Witness ==
  /\ last = Ev("create", 429, "none")
  /\ Len(annotations) = MAX_ANNOTATIONS
  /\ deletedIds = {}

\* C4: a successful create appends exactly its new record to the list, under
\* an id that no record of the store has, that no deleted record had and that
\* was never assigned before
C4_CreateAppendsFreshId ==
  [][IsInsertStep =>
       /\ annotations' = Append(annotations, Inserted)
       /\ Inserted.id \notin IdsOf(annotations) \cup deletedIds
       /\ Inserted.id \notin FirstFreshId..(nextId - 1)]_vars
C4_Witness ==
  /\ last = Ev("create", 201, "none")
  /\ deletedIds # {}
  /\ Len(annotations) = 1

\* C5: status is monotonic: an annotation that is resolved is resolved in every
\* later state in which it is in the store
C5_StatusMonotonic ==
  [][\A id \in TargetIds :
       /\ id \in IdsOf(annotations) /\ id \in IdsOf(annotations')
       /\ Lookup(annotations, id).status = "resolved"
       => Lookup(annotations', id).status = "resolved"]_vars

\* C6: an id that was deleted or cleared is absent from the store in every later state
C6_DeletedStaysAbsent == deletedIds \cap IdsOf(annotations) = {}

\* C7: with persistence enabled, when shutdown() completes the snapshot file
\* holds exactly the store's records and no debounce timer is pending
C7_ShutdownLosesNothing ==
  last = Ev("shutdown", 200, "none") /\ persistEnabled
  => persistFile = Snapshot(annotations) /\ timers = <<>>

\* C8: at most one debounce timer is pending at any time, and a timer-driven
\* flush happens only when 300 ms have passed since the most recent mutation made
\* with persistence enabled, and writes all the records of the store
C8_Debounce ==
  /\ [](Len(timers) <= 1)
  /\ [][last'.io = "timerFlush" =>
         /\ lastMutation.enabled => lastMutation.ms >= PERSIST_DEBOUNCE_MS
         /\ persistFile' = Snapshot(annotations)]_vars
C8_Witness ==
  /\ last.io = "timerFlush"
  /\ Len(annotations) = MaxCreates
  /\ lastMutation.enabled

\* C9: the records a fresh instance holds after start with persistence are
\* exactly the records the previous instance held when its shutdown flushed
C9_RestartRoundTrip ==
  [][fresh /\ ~fresh' /\ persistEnabled' /\ shutdownFlush.valid
     => annotations' = shutdownFlush.store]_vars

\* C10: in a session started with persistence disabled no step reads, creates
\* or writes the snapshot file
C10_DisabledTouchesNoFile ==
  [][~persistEnabled' => persistFile' = persistFile /\ last'.io = "none"]_vars
C10_Witness ==
  /\ ~persistEnabled
  /\ last = Ev("shutdown", 200, "none")
  /\ Len(annotations) > 0
  /\ persistFile = NoFile

\* a well-formed snapshot: a JSON array of annotations
IsAnnotation(e) == {"id", "text", "status", "screenshot", "anchorPoint"} \subseteq DOMAIN e
Malformed(file) ==
  \/ file.kind # "json"
  \/ \E i \in 1..Len(file.value) : ~IsAnnotation(file.value[i])

\* C11: a start with persistence that finds the snapshot file missing or
\* malformed (unparseable, not an array, an array with an invalid entry) leaves
\* the store with none of that file's content
C11_MalformedStartsEmpty ==
  [][last'.io = "load" /\ Malformed(persistFile) => annotations' = annotations]_vars

\* the events of the latch: a poll, a call of waitForSend, a trigger of send
Polls == {"consumeTrue", "consumeFalse"}
WaitCalls == {"waitTrue", "waitPending"}
Sends == {"send", "wake"}
\* consecutive events of the log
Pairs == {i \in 1..Len(sendLog) : i >= 2}

\* C12: poll mode: consumeSentState() returns false when no send was triggered
\* since the last consume (or since construction); the consume that follows a
\* send to no waiter returns true, and the consume right after a consume returns false
C12_PollMode ==
  /\ Len(sendLog) < MaxLog /\ Len(sendLog) > 0 /\ sendLog[1] \in Polls => sendLog[1] = "consumeFalse"
  /\ \A i \in Pairs :
       /\ sendLog[i] = "consumeTrue" => sendLog[i - 1] = "send"
       /\ sendLog[i - 1] = "send" /\ sendLog[i] \in Polls => sendLog[i] = "consumeTrue"
       /\ sendLog[i - 1] \in Polls /\ sendLog[i] \in Polls => sendLog[i] = "consumeFalse"
C12_Witness == sendLog = <<"send", "consumeTrue", "consumeFalse">>

\* C13: a waitForSend called when a send is latched resolves at once with
\* triggered = true and clears the latch: a consume that follows returns false
C13_WaitWhenLatched ==
  /\ \A i \in Pairs :
       /\ sendLog[i - 1] = "send" /\ sendLog[i] \in WaitCalls => sendLog[i] = "waitTrue"
       /\ sendLog[i] = "waitTrue" => sendLog[i - 1] = "send"
       /\ sendLog[i - 1] = "waitTrue" /\ sendLog[i] \in Polls => sendLog[i] = "consumeFalse"
  /\ Len(sendLog) > 0 /\ sendLog[Len(sendLog)] = "waitTrue" => sendLatch = "idle" /\ waiter = NoWaiter
C13_Witness == sendLog = <<"send", "waitTrue", "consumeFalse">>

\* C14: a send triggered while a waitForSend is outstanding resolves that wait
\* with triggered = true (its timeout has not run); a send with no active waiter
\* only sets the latch
C14_SendWakesWaiter ==
  /\ \A i \in Pairs :
       /\ sendLog[i - 1] = "waitPending" /\ sendLog[i] \in Sends => sendLog[i] = "wake"
       /\ sendLog[i] = "wake" => sendLog[i - 1] \in {"waitPending", "consumeFalse"}
       /\ sendLog[i - 1] \in {"waitFalse", "waitTrue", "wake", "send", "consumeTrue"} /\ sendLog[i] \in Sends
            => sendLog[i] = "send"
  /\ Len(sendLog) > 0 /\ sendLog[Len(sendLog)] = "send" => sendLatch = "latched" /\ waiter = NoWaiter
  /\ Len(sendLog) > 0 /\ sendLog[Len(sendLog)] = "wake" => sendLatch # "waiting" /\ waiter = NoWaiter
C14_Witness ==
  /\ Len(sendLog) >= 2
  /\ sendLog[Len(sendLog) - 1] = "waitPending"
  /\ sendLog[Len(sendLog)] = "wake"

\* C15: every waitForSend eventually resolves; it resolves with triggered =
\* false only as the timeout of a pending wait that no send has woken
C15_WaitResolves ==
  /\ (sendLatch = "waiting") ~> (sendLatch # "waiting")
  /\ [](\A i \in Pairs : sendLog[i] = "waitFalse" => sendLog[i - 1] \in {"waitPending", "consumeFalse"})
  /\ [](sendLatch = "waiting" => waiter.elapsed <= waiter.timeout)
C15_Witness ==
  /\ Len(sendLog) >= 2
  /\ sendLog[Len(sendLog) - 1] = "waitPending"
  /\ sendLog[Len(sendLog)] = "waitFalse"

\* a create is suspended on the screenshot callback
Stalled == {s \in Slots : reqs[s].pc = "screenshot"}
\* the model has an identifier left for one more create
CanCreate == nextId + InFlightCreates < FirstFreshId + MaxCreates

\* C16: while a create is suspended on the screenshot callback the server keeps
\* serving: list, resolve, delete and clear are handled, a new create or patch
\* is taken on a free connection, a request whose body arrives is completed;
\* and the suspended request changes only by its own callback settling
C16_CallbackDoesNotBlock ==
  /\ [](Stalled # {} /\ server = "listening" =>
          /\ ENABLED List
          /\ ENABLED Clear("http")
          /\ \A id \in TargetIds : ENABLED Resolve("http", id) /\ ENABLED Delete("http", id)
          /\ HasFreeSlot => \A id \in TargetIds : ENABLED PatchBegin(id)
          /\ HasFreeSlot /\ CanCreate => ENABLED CreateBegin
          /\ \A t \in Slots :
               /\ reqs[t].pc = "readBody" /\ reqs[t].op = "create" =>
                    \A body \in Bodies : ENABLED CreateBodyRead(t, body)
               /\ reqs[t].pc = "readBody" /\ reqs[t].op = "patch" =>
                    \A text \in PatchTexts : ENABLED PatchBodyRead(t, text))
  /\ [][\A s \in Stalled :
          reqs'[s] # reqs[s] => reqs'[s] = Idle /\ last' = Ev("create", 201, "none")]_vars
C16_Witness ==
  /\ Stalled # {}
  /\ last = Ev("create", 201, "none")
  /\ Len(annotations) > 0

\* C17: whatever the screenshot callback does the create answers 201: the
\* record has screenshot null when the callback throws or returns more than
\* MAX_SCREENSHOT_BYTES characters, and the returned string itself otherwise;
\* no stored screenshot is over the limit
C17_ScreenshotNeverFailsCreate ==
  /\ [][\A s \in Slots, outcome \in ScreenshotOutcomes :
          CreateScreenshotDone(s, outcome) =>
            /\ last' = Ev("create", 201, "none")
            /\ Len(annotations') = Len(annotations) + 1
            /\ Inserted.screenshot =
                 IF outcome.kind = "throw" THEN JsNull
                 ELSE IF IsString(outcome.value) /\ outcome.value.strlen > MAX_SCREENSHOT_BYTES
                   THEN JsNull
                 ELSE outcome.value]_vars
  /\ [](\A i \in 1..Len(annotations) :
          IsString(annotations[i].screenshot) =>
            annotations[i].screenshot.strlen <= MAX_SCREENSHOT_BYTES)
C17_Witness ==
  /\ last = Ev("create", 201, "none")
  /\ Len(annotations) = MaxCreates
  /\ annotations[1].screenshot = StrOfLen(MAX_SCREENSHOT_BYTES)
  /\ annotations[Len(annotations)].screenshot = JsNull
  /\ annotations[Len(annotations)].anchorPoint # Absent

\* C18: a create or patch answered 400 leaves the store, the pending
\* persistence timer and the snapshot file exactly as they were
C18_RejectionChangesNothing ==
  [][last'.status = 400 =>
       /\ annotations' = annotations
       /\ timers' = timers /\ persistTimer' = persistTimer
       /\ persistFile' = persistFile
       /\ lastMutation' = lastMutation
       /\ nextId' = nextId]_vars
C18_Witness ==
  /\ persistEnabled
  /\ last = Err("patch", 400, "Text")
  /\ Len(annotations) > 0
  /\ timers = <<>>

\* the body a create or patch sends reaches the handler: readBody does not cut it off
Delivered(bytes) == ~readBodyRejects(bytes)

\* C19 as stated: text of MAX_TEXT_LENGTH + 1 characters or more is answered 400
\* naming Text, on create and on patch; text of at most MAX_TEXT_LENGTH is accepted
C19_TextBoundAnyLength ==
  /\ [][\A s \in Slots, body \in ValidationBodies :
          CreateBodyRead(s, body) /\ IsString(body.text) =>
            IF body.text.strlen > MAX_TEXT_LENGTH
              THEN last' = Err("create", 400, "Text")
              ELSE last'.error # "Text"]_vars
  /\ [][\A s \in Slots, text \in ValidationTexts :
          PatchBodyRead(s, text) /\ IsString(text) =>
            IF text.strlen > MAX_TEXT_LENGTH
              THEN last' = Err("patch", 400, "Text")
              ELSE last' = Ev("patch", 200, "none")]_vars

\* C19, amended: the same for every body that readBody delivers (at most
\* MAX_BODY_BYTES bytes); an accepted text is the text stored
C19_TextBound ==
  /\ [][\A s \in Slots, body \in ValidationBodies :
          CreateBodyRead(s, body) /\ IsString(body.text) /\ Delivered(BodyBytes(body)) =>
            IF body.text.strlen > MAX_TEXT_LENGTH
              THEN last' = Err("create", 400, "Text") /\ annotations' = annotations
              ELSE /\ last'.error # "Text"
                   /\ Rejection(body) = "none" =>
                        last' = Ev("create", 201, "none") /\ Inserted.text = body.text]_vars
  /\ [][\A s \in Slots, text \in ValidationTexts :
          PatchBodyRead(s, text) /\ IsString(text) /\ Delivered(text.strlen) =>
            IF text.strlen > MAX_TEXT_LENGTH
              THEN last' = Err("patch", 400, "Text") /\ annotations' = annotations
              ELSE /\ last' = Ev("patch", 200, "none")
                   /\ reqs[s].attached => Lookup(annotations', reqs[s].id).text = text]_vars
C19_Witness ==
  /\ last = Err("create", 400, "Text")
  /\ Len(annotations) > 0
  /\ annotations[1].text = StrOfLen(MAX_TEXT_LENGTH)

\* a selector of the body, top-level or of an entry of elements, is too long
Selectors(body) ==
  {JsString(body.selector).strlen} \cup
  (IF body.elements = Absent THEN {}
   ELSE {JsString(body.elements[i].selector).strlen :
           i \in {j \in 1..Len(body.elements) : body.elements[j] # JsNull}})
HasLongSelector(body) == \E n \in Selectors(body) : n > MAX_SELECTOR_LENGTH

\* C20: a create with a selector, top-level or of any entry of elements, longer
\* than MAX_SELECTOR_LENGTH is answered 400 and stores nothing; a create whose
\* selectors are all within the limit is not rejected for its selectors
C20_SelectorBound ==
  [][\A s \in Slots, body \in ValidationBodies :
       CreateBodyRead(s, body) =>
         IF HasLongSelector(body)
           THEN last'.status = 400 /\ annotations' = annotations
           ELSE last'.error \notin {"Selector", "Element selector"}]_vars

\* C21: update-text, resolve and delete of an id that is not in the store when
\* the request arrives (or the method is called) report not found: 404
\* "Annotation not found" (undefined, false), not a validation error and not
\* success, whatever body the request would send, and the store, the requests
\* in flight and the persistence timer are as before
C21_UnknownIdNotFound ==
  [][\A id \in TargetIds :
       id \notin IdsOf(annotations) =>
         /\ PatchBegin(id) => last' = NotFound("patch") /\ reqs' = reqs
         /\ \A via \in {"direct", "http"} :
              /\ Resolve(via, id) => last' = NotFound("resolve")
              /\ Delete(via, id) => last' = NotFound("delete")
         /\ PatchBegin(id) \/ Resolve("direct", id) \/ Resolve("http", id)
              \/ Delete("direct", id) \/ Delete("http", id)
            => /\ annotations' = annotations
               /\ timers' = timers /\ persistTimer' = persistTimer
               /\ deletedIds' = deletedIds]_vars
C21_Witness ==
  /\ last = NotFound("delete")
  /\ deletedIds # {}
  /\ Len(annotations) > 0

\* C22: clear always succeeds: on a store of N records (N may be 0) it reports
\* N removed, as the result of clearAnnotations and as 200 { success: true,
\* deleted: N }, and the store is empty afterwards
C22_ClearAlwaysSucceeds ==
  /\ [][\A via \in {"direct", "http"} :
          Clear(via) => last' = Cleared(Len(annotations)) /\ annotations' = <<>>]_vars
  /\ [](ENABLED Clear("direct"))
  /\ [](server = "listening" => ENABLED Clear("http"))
C22_Witness ==
  /\ last = Cleared(MaxCreates)
  /\ annotations = <<>>
  /\ server = "listening"

\* C23: resolve is idempotent in effect: resolving an annotation that is
\* already resolved succeeds again (200, the annotation) and leaves its status
\* resolved and its other fields, and every other record, as they were
C23_ResolveIdempotent ==
  [][\A via \in {"direct", "http"}, id \in TargetIds :
       /\ Resolve(via, id)
       /\ id \in IdsOf(annotations)
       /\ Lookup(annotations, id).status = "resolved"
       => /\ last' = Ev("resolve", 200, "none")
          /\ annotations' = annotations
          /\ Lookup(annotations', id).status = "resolved"]_vars
\* the record was resolved and flushed before the resolve that was answered last
C23_Witness ==
  /\ last = Ev("resolve", 200, "none")
  /\ Len(annotations) = 1
  /\ annotations[1].status = "resolved"
  /\ persistFile = Snapshot(annotations)
  /\ timers # <<>>

\* what a step leaves alone when it changes nothing of the instance or its files
NoEffect ==
  UNCHANGED <<annotations, persistEnabled, persistTimer, timers, server, startPc, port,
              portFile, persistFile, screenshotCallback, reqs, nextId, lastMutation,
              deletedIds>>

\* C24: start() on a running server returns the port the server is bound to
\* and does nothing else: no second listen, no load of the snapshot, no change
\* of the persistence flag, no write of the port file; and it can be called in
\* every state of a running server
C24_StartIdempotent ==
  /\ [][\A persist \in BOOLEAN :
          StartRunning(persist) =>
            /\ last'.port = port /\ port \in {portsToTry[i] : i \in 1..Len(portsToTry)}
            /\ NoEffect]_vars
  /\ [](server = "listening" => \A persist \in BOOLEAN : ENABLED StartRunning(persist))
\* start({persist: true}) was called on a server that runs without persistence,
\* with a snapshot on disk and the port file no longer the one it wrote
C24_Witness ==
  /\ last = Started("start while running", port)
  /\ server = "listening"
  /\ ~persistEnabled
  /\ persistFile = JsonFile(<<SeedAnnotation(SeedId)>>)
  /\ annotations = <<>>
  /\ portFile # writePortFile(port)

\* C25: shutdown() on a server that is not running returns without effect; when
\* a shutdown completes the port is null, and it stays null until a start binds
C25_ShutdownIdempotent ==
  /\ [][ShutdownIdle => NoEffect]_vars
  /\ [](server = "none" => ENABLED ShutdownIdle)
  /\ [][ServerClosed => port' = 0 /\ server' = "none"]_vars
  /\ [](server = "none" /\ startPc = "idle" => port = 0)
  /\ [][port = 0 /\ port' # 0 => \E busy \in BusyPortSets : StartListen(busy)]_vars
\* a shutdown of a server that had served creates completed, and shutdown was
\* called again
C25_Witness ==
  /\ last = Ev("shutdown while stopped", 200, "none")
  /\ server = "none" /\ port = 0
  /\ persistFile = NoFile
  /\ Len(annotations) > 0

\* C26: when start binds, the port file holds { port, pid, startedAt } with the
\* bound port; no other step of the instance touches the file until the close
\* callback of shutdown, after which the file does not exist and shutdown has
\* completed, also when the file was missing already
C26_PortFileLifecycle ==
  /\ [][\A busy \in BusyPortSets :
          StartListen(busy) /\ firstFreePort(busy) # 0 =>
            /\ portFile'.kind = "json"
            /\ DOMAIN portFile'.value = {"port", "pid", "startedAt"}
            /\ portFile'.value.port = port' /\ port' = firstFreePort(busy)]_vars
  /\ [][portFile' # portFile =>
         \/ \E busy \in BusyPortSets : StartListen(busy)
         \/ ServerClosed
         \/ \E file \in PortFiles : PortFileReplaced(file)]_vars
  /\ [][ServerClosed =>
         /\ portFile' = NoFile
         /\ last'.op = "shutdown" /\ last'.status = 200
         /\ server' = "none"]_vars
C26_Witness ==
  /\ last = [Ev("shutdown", 200, "none") EXCEPT !.error = "ENOENT"]
  /\ portFile = NoFile
  /\ server = "none"

\* C27: readPortFile never throws: it returns null when the file is missing or
\* is not JSON and the record of the file otherwise, which right after a start
\* that bound is the record of this server
C27_ReadPortFile ==
  /\ [][ReadPortFile =>
         /\ last' = Read(IF portFile = NoFile \/ portFile = GarbageFile THEN JsNull
                         ELSE portFile.value)
         /\ "threw" \notin DOMAIN last'.result
         /\ last.op = "start" /\ last.status = 200 => last'.result.port = port
         /\ NoEffect]_vars
  /\ [](ENABLED ReadPortFile)
C27_Witness ==
  /\ last = Read(JsNull)
  /\ portFile = GarbageFile
  /\ server = "listening"

\* the bodies that make the handler throw: text that is not JSON, the body
\* null, a body readBody refuses, a null entry of elements read for its selector
Faulty(body) ==
  \/ body \in FaultBodies
  \/ readBodyRejects(BodyBytes(body))
  \/ /\ body.elements # Absent
     /\ \E i \in 1..Len(body.elements) : body.elements[i] = JsNull
     /\ Rejection([body EXCEPT !.elements = Absent]) = "none"
FaultyText(text) == text \in FaultTexts \/ readBodyRejects(JsString(text).strlen)
\* the catch has answered a request
Caught == last.status = 500 /\ last.op \in {"create", "patch"}

\* C28 as stated: every exception thrown while a request is handled is
\* answered with 500 { error: "Internal server error" }, the request leaves the
\* store as it was, and the server keeps serving
C28_AnyFaultAnswered500 ==
  /\ [][\A s \in Slots, body \in ValidationBodies \cup FaultBodies :
          CreateBodyRead(s, body) /\ Faulty(body) =>
            last' = InternalError("create", FALSE) /\ annotations' = annotations]_vars
  /\ [][\A s \in Slots, text \in ValidationTexts \cup FaultTexts :
          PatchBodyRead(s, text) /\ FaultyText(text) =>
            last' = InternalError("patch", FALSE) /\ annotations' = annotations]_vars

\* C28, amended: the same for every exception but the rejection of a body of
\* more than MAX_BODY_BYTES bytes, for which readBody has destroyed the
\* connection and the 500 of the catch reaches nobody; in both cases the store,
\* the id source and the persistence timer are as before, the request is over
\* and the server keeps serving
C28_FaultRequestScoped ==
  /\ [][\A s \in Slots, body \in ValidationBodies \cup FaultBodies :
          CreateBodyRead(s, body) /\ Faulty(body) =>
            /\ last' = InternalError("create", ~Unreadable(body) /\ ~Delivered(BodyBytes(body)))
            /\ reqs'[s] = Idle]_vars
  /\ [][\A s \in Slots, text \in ValidationTexts \cup FaultTexts :
          PatchBodyRead(s, text) /\ FaultyText(text) =>
            /\ last' = InternalError("patch", ~Delivered(JsString(text).strlen))
            /\ reqs'[s] = Idle]_vars
  /\ [][last'.status = 500 /\ last'.op \in {"create", "patch"} =>
         /\ annotations' = annotations /\ nextId' = nextId
         /\ timers' = timers /\ persistTimer' = persistTimer
         /\ persistFile' = persistFile
         /\ server' = server
         /\ \A t \in Slots : reqs'[t] # reqs[t] => reqs'[t] = Idle /\ reqs[t].op = last'.op]_vars
  /\ [](Caught =>
          /\ server = "listening"
          /\ ENABLED List
          /\ HasFreeSlot /\ CanCreate => ENABLED CreateBegin
          /\ \A t \in Slots : reqs[t].pc = "readBody" /\ reqs[t].op = "create" =>
               ENABLED CreateBodyRead(t, PlainBody))
\* a request that threw was answered 500 while another request is in
\* flight and records are stored
C28_Witness ==
  /\ last = InternalError("create", FALSE)
  /\ Len(annotations) > 0
  /\ \E t \in Slots : reqs[t] # Idle /\ reqs[t].pc = "readBody"

\* a step that writes an HTTP response
Responds == last'.status >= 200 /\ last'.op \notin {"start", "isAllowedOrigin"}

C30_IsAllowedOrigin ==
  [][last'.op = "isAllowedOrigin" =>
       /\ last'.input \in Origins
       /\ last'.result = IF last'.input \in LoopbackOrigins THEN last'.input ELSE JsNull
       /\ annotations' = annotations]_vars
C30_Witness ==
  /\ last = Checked(EvilSubdomain, JsNull)
  /\ server = "listening"

\* C31: records leave the store only by value: after a caller has changed a
\* record it obtained from getAnnotation, getAnnotations or resolveAnnotation,
\* the store still holds, and returns, the record as it was handed out
C31_HandedOutByValue ==
  /\ [][last'.op = "callerEdit" => Lookup(annotations', last'.id) = last'.returned]_vars
  /\ [][last.op = "callerEdit" /\ last'.op = "getAnnotation" /\ last'.id = last.id
         => last'.value = last.returned]_vars

\* a debounced flush is pending: this.persistTimer holds a live timeout
FlushPending == persistTimer \in 1..Len(timers)
\* the step answered a create, a text update, a resolve or a delete of one
\* record with success
MutatedOne ==
  \/ last'.op = "create" /\ last'.status = 201
  \/ last'.op \in {"patch", "resolve", "delete"} /\ last'.status = 200

\* C32 as stated: with persistence enabled, immediately after every successful
\* create, text update, resolve, delete of one record and clear, a debounced
\* flush is pending
C32_EveryMutationSchedules ==
  [][persistEnabled /\ (MutatedOne \/ last'.op = "clear") => FlushPending']_vars

\* C32, amended: with persistence enabled, immediately after every successful
\* create, text update, resolve and delete of one record, and after every clear
\* that removed at least one record, a debounced flush is pending and its
\* quiet period starts anew; a clear of an empty store schedules nothing
C32_MutationSchedules ==
  /\ [][persistEnabled /\ (MutatedOne \/ (last'.op = "clear" /\ Len(annotations) > 0))
         => FlushPending' /\ timers'[persistTimer'] = 0]_vars
  /\ [][last'.op = "clear" /\ Len(annotations) = 0
         => persistTimer' = persistTimer /\ timers' = timers]_vars
\* a clear that removed every record of a flushed store: the flush is pending
\* and the snapshot still holds the records
C32_Witness ==
  /\ last = Cleared(MaxCreates)
  /\ persistEnabled /\ FlushPending /\ timers[persistTimer] = 0
  /\ persistFile # Snapshot(annotations) /\ persistFile # NoFile

\* a step that changes the store
Mutating == MutatedOne \/ (last'.op = "clear" /\ Len(annotations) > 0)

\* C33: with persistence enabled and the process left running, once mutations
\* stop the debounce timer eventually fires and from then on nothing is pending
\* and the snapshot file equals the store; the flush of the timer writes the
\* store as it is at that moment
C33_EventuallyFlushed ==
  /\ <>[][~Mutating]_vars
        => <>[](persistEnabled /\ lastMutation.enabled
                 => ~FlushPending /\ timers = <<>> /\ persistFile = Snapshot(annotations))
  /\ [][last'.io = "timerFlush" => persistFile' = Snapshot(annotations') /\ ~FlushPending']_vars
\* the timer has fired 300 ms after the last of two creates and a resolve, and
\* the snapshot holds both records
C33_Witness ==
  /\ last = Ev("none", 0, "timerFlush")
  /\ Len(annotations) = MaxCreates
  /\ annotations[1].status = "resolved"
  /\ persistFile = Snapshot(annotations)
  /\ lastMutation = [ms |-> PERSIST_DEBOUNCE_MS, enabled |-> TRUE]

\* the step ran the 'data' listener of the request in slot s
DataStep(s) ==
  /\ reqs[s] # Idle /\ reqs'[s] # Idle
  /\ ReaderOf(reqs'[s]).events = ReaderOf(reqs[s]).events + 1

\* C34: readBody enforces its ceiling while streaming: with the chunk that
\* takes the accumulated size over MAX_BODY_BYTES the read fails and the
\* connection is destroyed; that chunk and every later one is not kept; the
\* request changes neither the store nor the timer; and up to MAX_BODY_BYTES
\* every byte that arrived is in the text readBody returns
C34_StreamingCeiling ==
  /\ [](\A s \in Slots :
          reqs[s] # Idle =>
            LET r == ReaderOf(reqs[s])
            IN IF r.size > MAX_BODY_BYTES
                 THEN /\ r.destroyed /\ r.settled = "rejected" /\ reqs[s].pc = "destroyed"
                      /\ SumSeq(r.chunks) <= MAX_BODY_BYTES
                 ELSE /\ ~r.destroyed /\ r.settled = "pending"
                      /\ SumSeq(r.chunks) = r.size)
  /\ [][\A s \in Slots :
          DataStep(s) /\ ReaderOf(reqs'[s]).size > MAX_BODY_BYTES
          => /\ ReaderOf(reqs'[s]).chunks = ReaderOf(reqs[s]).chunks
             /\ annotations' = annotations /\ persistTimer' = persistTimer /\ timers' = timers
             /\ (reqs[s].pc = "readBody" => last' = InternalError(reqs[s].op, TRUE))]_vars
  /\ [][\A s \in Slots :
          reqs[s] # Idle /\ reqs[s].pc = "destroyed" /\ reqs'[s] # reqs[s]
          => annotations' = annotations /\ persistTimer' = persistTimer /\ timers' = timers]_vars
  /\ [][\A s \in Slots :
          /\ reqs[s] # Idle /\ reqs[s].pc = "readBody" /\ ReaderOf(reqs[s]).events > 0
          /\ reqs'[s] = Idle
          => last'.status \in {201, 200, 400}]_vars
\* a PATCH whose third chunk took the size one byte over the ceiling
C34_Witness ==
  /\ last = InternalError("patch", TRUE)
  /\ \E s \in Slots :
       /\ reqs[s] # Idle /\ reqs[s].pc = "destroyed"
       /\ reqs[s].reader.chunks = <<32768, 32768>>
       /\ reqs[s].reader.size = MAX_BODY_BYTES + 1
  /\ Len(annotations) = 1
  /\ annotations[1].text = JsString(PlainBody.text)

\* the step completes the PATCH handler of slot s
PatchCompletes(s) ==
  /\ reqs[s] # Idle /\ reqs[s].op = "patch" /\ reqs[s].pc = "readBody"
  /\ reqs'[s] = Idle
  /\ last'.op = "patch"

\* C35: a PATCH /annotations/:id that answers 200 has updated a record that
\* is in the store at that moment; when the record was deleted or the store
\* cleared while the PATCH read its body, the PATCH does not answer 200 and
\* schedules no flush
C35_PatchOnlyStoredRecord ==
  [][\A s \in Slots :
       PatchCompletes(s) /\ reqs[s].id \notin IdsOf(annotations)
       => /\ last'.status # 200
          /\ persistTimer' = persistTimer /\ timers' = timers]_vars

\* the ports on which http servers of this instance accept connections
Listening == (IF server = "listening" THEN {port} ELSE {}) \cup orphaned

\* C36: two start() calls that overlap result in exactly one listening http
\* server, and both calls return that server's port: when the second call
\* returns after the first has bound, it returns the port the first returned
\* and that port's server is the only one listening
C36_OverlappingStartsOneServer ==
  /\ [](Cardinality(Listening) <= 1)
  /\ [][secondStart = "listen" /\ secondStart' = "idle" /\ server = "listening"
         => last' = Started("start again", port) /\ Listening' = {port}]_vars

\* C37: a port returned by start() is the port of a server that is listening
\* at that moment, also when start() is called while a shutdown of the
\* instance is in progress, and the server stays listening on it until
\* shutdown is called
C37_ReturnedPortListens ==
  /\ [][last'.op \in {"start", "start while running"} /\ last'.status = 200
         => server' = "listening" /\ port' = last'.port /\ last'.port # 0]_vars
  /\ [][server = "listening" /\ server' # "listening" => server' = "closing" /\ port' = port]_vars

\* C38: while this instance is running, readPortFile returns the record of a
\* running server, this one's or another instance's, whatever other instances
\* that share the path of the port file have started and shut down meanwhile
C38_PortFileNamesRunningServer ==
  [][last'.op = "readPortFile" /\ server = "listening" /\ portFile # GarbageFile
     => /\ last'.result # JsNull
        /\ last'.result.port \in {port, otherPort}]_vars

====
